---- MODULE Spec2Model ----
(***************************************************************************)
(* Model of the Sparky tutoring backend: the phase checklist               *)
(* (checklist_manager.py), the per-session scratch data                    *)
(* (session_data_manager.py), the onboarding extractors and the judgment   *)
(* calls (input_evaluator.py) and the turn router with its step handlers   *)
(* (chat_logic_service.py).                                                *)
(*                                                                         *)
(* Text is a sequence of one-character strings, so that strip, lower,      *)
(* upper, capitalize and the regular expressions of extract_name are       *)
(* computed character by character.  A fixed reply the code returns as a   *)
(* literal, and text produced by the generative model, is opaque to the    *)
(* program: it is carried as a one-element sequence holding the literal.   *)
(***************************************************************************)
EXTENDS Integers, Sequences, FiniteSets, TLC

VARIABLES
    phases,         \* checklist.phases.state      : major step -> done flag
    sub_phases,     \* checklist.sub_phases.state  : sub-step   -> done flag
    onboarding,     \* session_data.onboarding_data
    conv,           \* session_data.important_conversation_data
    stories_data,   \* ChatLogicService.stories_data (the story catalog)
    topics_data,    \* ChatLogicService.topics_data  (the topic catalog)
    turn,           \* the last operation: its inputs (gen: the outcome of
                    \* send_message when the turn called it) and its results
    api_calls,      \* number of direct checklist calls made so far
    pending,        \* caller -> its process_message call that is suspended
                    \* in send_message, if it has one
    sessions,       \* ChatSessionManager.sessions : session id -> record
    last_call       \* the last direct call of a method: its name, its
                    \* arguments and what it returned

vars == <<phases, sub_phases, onboarding, conv, stories_data, topics_data,
          turn, api_calls, pending, sessions, last_call>>

----------------------------------------------------------------------------
(* Python values *)

\* Python's None, distinct from every text (also from the empty text <<>>).
None == <<"None">>

\* A slot that holds a dict (a story or a topic record) holds a sequence of
\* records: the empty dict {} is the empty sequence, a dict d is <<d>>, and
\* None in such a slot is the one-record sequence below.
EmptyDict == <<>>

DictNone == <<[py_none |-> TRUE]>>

\* The value get_current_phase returns when every step is done.
NoPhase == "None"

\* A literal or generated text whose characters the program never inspects.
Lit(s) == <<s>>

\* Python truthiness of a text-or-None value (None and "" are falsy).
Truthy(v) == v # None /\ v # <<>>

----------------------------------------------------------------------------
(* Characters and the str methods the code uses *)

LowerChars == <<"a","b","c","d","e","f","g","h","i","j","k","l","m",
                "n","o","p","q","r","s","t","u","v","w","x","y","z">>

UpperChars == <<"A","B","C","D","E","F","G","H","I","J","K","L","M",
                "N","O","P","Q","R","S","T","U","V","W","X","Y","Z">>

DigitChars == {"0","1","2","3","4","5","6","7","8","9"}

\* the characters str.strip() trims and \s matches, among those a string of
\* the model can hold: space, \t, \n, \r, \f, \v and the separators
\* \x1c..\x1f (the last five are written as the characters themselves)
SpaceChars ==
    {" ", "\t", "\n", "\r", "\f", "", "", "", "", ""}

Range(s) == {s[i] : i \in DOMAIN s}

IsLower(c) == c \in Range(LowerChars)

IsUpper(c) == c \in Range(UpperChars)

\* [A-Za-z]
IsAlpha(c) == IsLower(c) \/ IsUpper(c)

\* \w of the re module, over the characters of the model
IsWordChar(c) == IsAlpha(c) \/ c \in DigitChars \/ c = "_"

IndexIn(c, s) == CHOOSE i \in DOMAIN s : s[i] = c

LowerChar(c) == IF IsUpper(c) THEN LowerChars[IndexIn(c, UpperChars)] ELSE c

UpperChar(c) == IF IsLower(c) THEN UpperChars[IndexIn(c, LowerChars)] ELSE c

\* str.lower()
Lower(t) == [i \in DOMAIN t |-> LowerChar(t[i])]

\* str.upper()
Upper(t) == [i \in DOMAIN t |-> UpperChar(t[i])]

\* str.capitalize(): first character upper-cased, the rest lower-cased
Capitalize(t) ==
    [i \in DOMAIN t |-> IF i = 1 THEN UpperChar(t[i]) ELSE LowerChar(t[i])]

\* str.title(): a letter is upper-cased when it follows a non-letter (or
\* starts the text) and lower-cased when it follows a letter
Title(t) ==
    [i \in DOMAIN t |->
        IF i = 1 \/ ~IsAlpha(t[i - 1]) THEN UpperChar(t[i]) ELSE LowerChar(t[i])]

\* str.strip(): drop leading and trailing whitespace
Strip(t) ==
    LET keep == {i \in DOMAIN t : t[i] \notin SpaceChars}
    IN  IF keep = {} THEN <<>>
        ELSE LET lo == CHOOSE i \in keep : \A j \in keep : i <= j
                 hi == CHOOSE i \in keep : \A j \in keep : j <= i
             IN  SubSeq(t, lo, hi)

\* i-1 when t[i] is not in S, else the last index of the run of S-characters
\* that starts at i (the greedy match of S+ or S* from position i)
RunEnd(t, i, S) ==
    CHOOSE j \in (i - 1)..Len(t) :
        /\ \A k \in i..j : t[k] \in S
        /\ (j = Len(t) \/ t[j + 1] \notin S)

AlphaChars == Range(LowerChars) \cup Range(UpperChars)

----------------------------------------------------------------------------
(* input_evaluator.py: onboarding extraction *)

MyNameIs == <<"m","y"," ","n","a","m","e"," ","i","s">>

\* re.search(r"\bmy name is\s+([A-Za-z]+)", text, re.IGNORECASE) matches with
\* "my name is" starting at position i
NameMatchAt(t, i) ==
    /\ i + Len(MyNameIs) <= Len(t)
    /\ (i = 1 \/ ~IsWordChar(t[i - 1]))
    /\ Lower(SubSeq(t, i, i + Len(MyNameIs) - 1)) = MyNameIs
    /\ t[i + Len(MyNameIs)] \in SpaceChars
    /\ LET ws == RunEnd(t, i + Len(MyNameIs), SpaceChars)
       IN  ws < Len(t) /\ IsAlpha(t[ws + 1])

\* extract_name returning the matched text as typed, without title() or
\* capitalize()
extract_name_raw(text) ==
    LET t      == Strip(text)
        starts == {i \in 1..Len(t) : NameMatchAt(t, i)}
    IN  IF starts # {}
        THEN LET i  == CHOOSE m \in starts : \A n \in starts : m <= n
                 ws == RunEnd(t, i + Len(MyNameIs), SpaceChars)
                 hi == RunEnd(t, ws + 1, AlphaChars)
             IN  SubSeq(t, ws + 1, hi)
        ELSE IF t # <<>> /\ \A k \in DOMAIN t : IsAlpha(t[k])
        THEN t
        ELSE None

\* InputEvaluator.extract_name
extract_name(text) ==
    LET t      == Strip(text)
        starts == {i \in 1..Len(t) : NameMatchAt(t, i)}
    IN  IF starts # {}
        THEN LET i  == CHOOSE m \in starts : \A n \in starts : m <= n
                 ws == RunEnd(t, i + Len(MyNameIs), SpaceChars)
                 hi == RunEnd(t, ws + 1, AlphaChars)
             IN  Title(SubSeq(t, ws + 1, hi))
        ELSE IF t # <<>> /\ \A k \in DOMAIN t : IsAlpha(t[k])
        THEN Capitalize(t)
        ELSE None

\* needle in hay, for Python strings
Contains(hay, needle) ==
    \E i \in 1..(Len(hay) - Len(needle) + 1) :
        SubSeq(hay, i, i + Len(needle) - 1) = needle

\* InputEvaluator.extract_topic: the first topic of the list whose name,
\* lower-cased, occurs in the stripped, lower-cased text
extract_topic(topics, text) ==
    LET user_text_lower == Lower(Strip(text))
        hits == {i \in DOMAIN topics :
                    Contains(user_text_lower, Lower(topics[i].topic_name))}
    IN  IF hits = {} THEN None
        ELSE topics[CHOOSE i \in hits : \A k \in hits : i <= k].topic_name

----------------------------------------------------------------------------
(* checklist_manager.py *)

\* ChatChecklist.__init__: phase_steps, in insertion order
phase_steps ==
    <<"got_name", "picked_topic", "story_selected", "entry_point_phase",
      "engagement_phase", "experimental_phase", "resolution_phase">>

\* ChatChecklist.__init__: sub_phase_steps, in insertion order
sub_phase_steps ==
    <<"initial_entry_prompt", "initial_engagement_prompt",
      "initial_experiment_prompt">>

\* ChecklistState.__init__: every step False
NewChecklistState(steps) == [s \in Range(steps) |-> FALSE]

\* get_current_phase that returns the last step that is not done
get_current_phase_last(state, steps) ==
    LET undone == {i \in DOMAIN steps : ~state[steps[i]]}
    IN  IF undone = {} THEN NoPhase
        ELSE steps[CHOOSE i \in undone : \A j \in undone : i >= j]

\* ChecklistState.get_current_phase: the first step, in insertion order,
\* that is not done
get_current_phase(state, steps) ==
    LET undone == {i \in DOMAIN steps : ~state[steps[i]]}
    IN  IF undone = {} THEN NoPhase
        ELSE steps[CHOOSE i \in undone : \A j \in undone : i <= j]

\* mark_done that adds a step name the checklist does not have
mark_done_adds(state, step) ==
    [k \in DOMAIN state \cup {step} |-> IF k = step THEN TRUE ELSE state[k]]

\* ChecklistState.mark_done
mark_done(state, step) ==
    IF step \in DOMAIN state THEN [state EXCEPT ![step] = TRUE] ELSE state

\* ChecklistState.mark_undone
mark_undone(state, step) ==
    IF step \in DOMAIN state THEN [state EXCEPT ![step] = FALSE] ELSE state

\* ChecklistState.is_done: state.get(step, False)
is_done(state, step) ==
    IF step \in DOMAIN state THEN state[step] ELSE FALSE

\* ChatChecklist.__init__: the two fresh checklists
NewPhases == NewChecklistState(phase_steps)

NewSubPhases == NewChecklistState(sub_phase_steps)

----------------------------------------------------------------------------
(* session_data_manager.py *)

\* SessionData.__init__: onboarding_data
NewOnboardingData ==
    [name               |-> None,
     chosen_topic       |-> None,
     topic_details      |-> EmptyDict,
     topic_stories      |-> EmptyDict,
     topic_stories_list |-> EmptyDict,
     story_data         |-> EmptyDict,
     chat_session       |-> None,
     end_goal           |-> None]

\* SessionData.__init__: important_conversation_data
NewConversationData ==
    [initial_story_narration |-> None,
     hypothesis_question     |-> None,
     last_hypothesis         |-> None,
     last_prediction         |-> None,
     experiment_data         |-> None]

\* d[k] = v on a Python dict: the key is added when it is missing
SetKey(d, k, v) == [x \in DOMAIN d \cup {k} |-> IF x = k THEN v ELSE d[x]]

\* "story_data" is a key of onboarding_data: it is one in a new SessionData
\* and is not after SessionData.reset, until _handle_select_story writes it
HasStoryKey(ob) == "story_data" \in DOMAIN ob

----------------------------------------------------------------------------
(* The content catalog the service is constructed with.  A topic is a dict  *)
(* with its topic_name; a story is a dict with story_id, title, topic and   *)
(* the names of the phases it has a script for (each script has its story   *)
(* text, main_question and expected_answer).                                *)

TopicPlants == <<"P","l","a","n","t","s">>

TopicGrowth == <<"G","r","o","w">>

TitleSeed == <<"T","h","e"," ","S","e","e","d">>

TitleTree == <<"B","i","g"," ","T","r","e","e">>

AllStoryPhases == {"entry", "engagement", "resolution"}

CatalogTopics ==
    <<[topic_name |-> TopicPlants], [topic_name |-> TopicGrowth]>>

CatalogStories ==
    <<[story_id |-> "s1", title |-> TitleSeed, topic |-> TopicPlants,
       phases |-> AllStoryPhases],
      [story_id |-> "s2", title |-> TitleTree, topic |-> TopicPlants,
       phases |-> AllStoryPhases]>>

----------------------------------------------------------------------------
(* The state a turn works on.  It is a record of the objects the handlers   *)
(* share (checklist, session_data), the catalog, what the turn has done so  *)
(* far (events), the exception that ended it (raised) and the value the     *)
(* last call returned (ret).                                                *)

NoException == "none"

Event(call, what, arg) == [call |-> call, what |-> what, arg |-> arg]

\* an exception leaves the handler chain: nothing after it runs
Raise(s, exc) == [s EXCEPT !.raised = exc]

Return(s, v) == [s EXCEPT !.ret = v]

Enter(s, handler, input) ==
    [s EXCEPT !.events = Append(@, Event("handler", handler, input))]

\* ChatLogicService._find_story_by_id / InputEvaluator._find_story_by_id:
\* the first story of the catalog with that id, as a dict slot
find_story_by_id(stories, story_id) ==
    LET hits == {i \in DOMAIN stories : stories[i].story_id = story_id}
    IN  IF hits = {} THEN DictNone
        ELSE <<stories[CHOOSE i \in hits : \A k \in hits : i <= k]>>

\* ChatLogicService._get_story_phase_data / InputEvaluator._get_story_phase_data:
\* TRUE when the story has a script for the phase, FALSE when None is returned
has_story_phase_data(stories, story_id, phase_name) ==
    LET story == find_story_by_id(stories, story_id)
    IN  story # DictNone /\ phase_name \in story[1].phases

\* ChatLogicService.get_topic_details / InputEvaluator.get_topic_details
get_topic_details(topics, topic_name) ==
    LET hits == {i \in DOMAIN topics : topics[i].topic_name = topic_name}
    IN  IF hits = {} THEN DictNone
        ELSE <<topics[CHOOSE i \in hits : \A k \in hits : i <= k]>>

----------------------------------------------------------------------------
(* chat_logic_service.py: the text-generation call *)

Apology == Lit("Oh no! I got a little stuck. Can you try saying that again?")

ChatHandle == Lit("chat session")

\* ChatLogicService._get_or_create_chat_session
get_or_create_chat_session(s) ==
    IF s.ob.chat_session = None
    THEN [s EXCEPT !.ob.chat_session = ChatHandle]
    ELSE s

\* _call_ai that sends the directive three times before it returns
call_ai_resends(s, g, directive) ==
    LET s1 == IF ~Truthy(s.ob.chat_session)
              THEN get_or_create_chat_session(s) ELSE s
        sent == Event("generate", directive, None)
        s2 == [s1 EXCEPT !.events = @ \o <<sent, sent, sent>>]
    IN  IF g.raises THEN Return(s2, Apology) ELSE Return(s2, g.text)

\* ChatLogicService._call_ai: g is what send_message does in this turn,
\* g.raises or the response whose text is g.text (possibly None)
call_ai(s, g, directive) ==
    LET s1 == IF ~Truthy(s.ob.chat_session)
              THEN get_or_create_chat_session(s) ELSE s
        s2 == [s1 EXCEPT !.events = Append(@, Event("generate", directive, None))]
    IN  IF g.raises THEN Return(s2, Apology) ELSE Return(s2, g.text)

----------------------------------------------------------------------------
(* input_evaluator.py: the judgment calls.  j is what generate_content does *)
(* in this turn: j.raises, or the response whose text is j.text (possibly   *)
(* None).  ret is the truth value the caller tests.                         *)

AcceptToken == <<"V","A","L","I","D">>

\* the response of the judgment call a run makes next: a run that has
\* made one gets j.then from its second call when j has that field, and j
\* again when it has not
response_of(s, j) ==
    IF "then" \in DOMAIN j /\ \E i \in DOMAIN s.events : s.events[i].call = "judge"
    THEN j.then ELSE j

\* client.aio.models.generate_content(...) inside a validator
generate_content(s, j, kind) ==
    LET o  == response_of(s, j)
        s1 == [s EXCEPT !.events = Append(@, Event("judge", kind, o.text))]
    IN  IF o.raises THEN Raise(s1, "JudgeCallError") ELSE s1

\* the verdict parsed by looking for the accept token inside the text
parse_verdict_contains(s, j) ==
    IF s.raised # NoException THEN s
    ELSE IF j.text = None THEN Raise(s, "AttributeError")
    ELSE Return(s, Contains(Upper(Strip(j.text)), AcceptToken))

\* "result_text = response.text.strip().upper(); return result_text == 'VALID'"
parse_verdict(s, j) ==
    IF s.raised # NoException THEN s
    ELSE IF j.text = None THEN Raise(s, "AttributeError")
    ELSE Return(s, Upper(Strip(j.text)) = AcceptToken)

\* a validator from its "await ...generate_content(...)" on
\* (input_evaluator.py:199, 261, 313, 373, 440): the verdict is parsed from the
\* response; is_hypothesis_valid (line 268) has no return statement, so its
\* caller always receives None, which it tests as false
validator_resumes(s, j, kind) ==
    IF kind = "hypothesis"
    THEN LET s1 == generate_content(s, j, kind)
         IN  IF s1.raised # NoException THEN s1 ELSE Return(s1, FALSE)
    ELSE parse_verdict(generate_content(s, j, kind), response_of(s, j))

\* InputEvaluator.is_observation_valid
is_observation_valid(s, observation, j) ==
    IF "stories_data" \notin DOMAIN s.ob THEN Raise(s, "KeyError")
    ELSE IF s.ob.stories_data = EmptyDict THEN Raise(s, "KeyError")
    ELSE IF ~has_story_phase_data(s.stories, s.ob.stories_data[1].story_id, "entry")
    THEN Raise(s, "AttributeError")
    ELSE validator_resumes(s, j, "observation")

\* InputEvaluator.is_hypothesis_valid
is_hypothesis_valid(s, hypothesis, j) ==
    IF ~HasStoryKey(s.ob) THEN Raise(s, "KeyError")
    ELSE IF s.ob.story_data = EmptyDict THEN Raise(s, "KeyError")
    ELSE IF ~has_story_phase_data(s.stories, s.ob.story_data[1].story_id, "engagement")
    THEN Raise(s, "AttributeError")
    ELSE validator_resumes(s, j, "hypothesis")

\* InputEvaluator.is_experiment_valid
is_experiment_valid(s, experiment_idea, j) ==
    IF get_topic_details(s.topics, s.ob.chosen_topic) = DictNone
    THEN Raise(s, "AttributeError")
    ELSE validator_resumes(s, j, "experiment")

\* InputEvaluator.is_prediction_valid
is_prediction_valid(s, prediction, j) ==
    IF get_topic_details(s.topics, s.ob.chosen_topic) = DictNone
    THEN Raise(s, "AttributeError")
    ELSE validator_resumes(s, j, "prediction")

\* InputEvaluator.is_conclusion_valid
is_conclusion_valid(s, conclusion, j) ==
    IF get_topic_details(s.topics, s.ob.chosen_topic) = DictNone
    THEN Raise(s, "AttributeError")
    ELSE validator_resumes(s, j, "conclusion")

----------------------------------------------------------------------------
(* chat_logic_service.py: the step handlers.  p is the user prompt of the   *)
(* turn, j the behaviour of the judgment call, g that of send_message.      *)
(* A handler that ends in "return await self._handle_...(...)" is the       *)
(* composition of the two operators.                                        *)

\* _handle_phase_resolution that, besides, sets story_selected back to
\* undone so that another story is picked next
handle_phase_resolution_restarts(s, p, j, g) ==
    LET s0 == Enter(s, "resolution", p)
    IN  IF ~HasStoryKey(s0.ob) THEN Raise(s0, "KeyError")
        ELSE IF s0.ob.story_data = EmptyDict THEN Raise(s0, "KeyError")
        ELSE IF ~has_story_phase_data(s0.stories, s0.ob.story_data[1].story_id,
                                      "resolution")
        THEN Raise(s0, "TypeError")
        ELSE call_ai([s0 EXCEPT
                        !.phases = mark_undone(mark_done(@, "resolution_phase"),
                                               "story_selected")],
                     g, "tell_resolution")

\* ChatLogicService._handle_phase_resolution
handle_phase_resolution(s, p, j, g) ==
    LET s0 == Enter(s, "resolution", p)
    IN  IF ~HasStoryKey(s0.ob) THEN Raise(s0, "KeyError")
        ELSE IF s0.ob.story_data = EmptyDict THEN Raise(s0, "KeyError")
        ELSE IF ~has_story_phase_data(s0.stories, s0.ob.story_data[1].story_id,
                                      "resolution")
        THEN Raise(s0, "TypeError")
        ELSE call_ai([s0 EXCEPT !.phases = mark_done(@, "resolution_phase")],
                     g, "tell_resolution")

\* _handle_conclusion_phase from the return of is_conclusion_valid on
\* (chat_logic_service.py:618); s1 carries what the validator returned or
\* raised
after_is_conclusion_valid(s1, p, j, g) ==
    IF s1.raised # NoException THEN s1
    ELSE IF s1.ret
    THEN handle_phase_resolution(
           [s1 EXCEPT
              !.phases = mark_done(@, "conclusion_phase"),
              !.sub = mark_undone(
                        mark_undone(@, "asked_for_prediction_prompt"),
                        "initial_conclusion_prompt")],
           p, j, g)
    ELSE call_ai(s1, g, "scaffold_conclusion")

\* ChatLogicService._handle_conclusion_phase
handle_conclusion_phase(s, p, j, g) ==
    LET s0 == Enter(s, "conclusion", p)
    IN  IF ~HasStoryKey(s0.ob) THEN Raise(s0, "KeyError")
        ELSE IF get_topic_details(s0.topics, s0.ob.chosen_topic) = DictNone
        THEN Raise(s0, "AttributeError")
        ELSE IF ~is_done(s0.sub, "initial_conclusion_prompt")
        THEN call_ai([s0 EXCEPT !.sub = mark_done(@, "initial_conclusion_prompt")],
                     g, "ask_conclusion")
        ELSE after_is_conclusion_valid(is_conclusion_valid(s0, p, j), p, j, g)

\* _handle_phase_experiment from the return of is_experiment_valid on
\* (chat_logic_service.py:467)
after_is_experiment_valid(s1, p, j, g) ==
    IF s1.raised # NoException THEN s1
    ELSE IF s1.ret
    THEN call_ai([s1 EXCEPT
                    !.sub = mark_done(@, "asked_for_prediction_prompt")],
                 g, "ask_prediction")
    ELSE LET s2 == call_ai(
                     [s1 EXCEPT
                        !.sub = mark_done(@, "asked_for_prediction_prompt")],
                     g, "propose_experiment")
         IN  [s2 EXCEPT !.conv.experiment_data = s2.ret]

\* _handle_phase_experiment from the return of is_prediction_valid on
\* (chat_logic_service.py:535)
after_is_prediction_valid(s1, p, j, g) ==
    IF s1.raised # NoException THEN s1
    ELSE IF s1.ret
    THEN handle_conclusion_phase(
           [s1 EXCEPT
              !.phases = mark_done(@, "experimental_phase"),
              !.sub = mark_undone(
                        mark_undone(@, "initial_experiment_prompt"),
                        "asked_for_prediction_prompt")],
           p, j, g)
    ELSE call_ai(s1, g, "scaffold_prediction")

\* ChatLogicService._handle_phase_experiment
handle_phase_experiment(s, p, j, g) ==
    LET s0 == Enter(s, "experiment", p)
        asked_for_experiment == is_done(s0.sub, "initial_experiment_prompt")
        asked_for_prediction == is_done(s0.sub, "asked_for_prediction_prompt")
    IN  IF ~HasStoryKey(s0.ob) THEN Raise(s0, "KeyError")
        ELSE IF ~asked_for_experiment
        THEN call_ai([s0 EXCEPT
                        !.conv.last_hypothesis = p,
                        !.sub = mark_done(@, "initial_experiment_prompt")],
                     g, "ask_experiment")
        ELSE IF ~asked_for_prediction
        THEN after_is_experiment_valid(is_experiment_valid(s0, p, j), p, j, g)
        ELSE after_is_prediction_valid(is_prediction_valid(s0, p, j), p, j, g)

\* _handle_phase_engagement that forgets to mark initial_engagement_prompt
\* done when it asks for the hypothesis
handle_phase_engagement_noflag(s, p, j, g) ==
    LET s0 == Enter(s, "engagement", p)
    IN  IF ~HasStoryKey(s0.ob) THEN Raise(s0, "KeyError")
        ELSE IF s0.ob.story_data = EmptyDict THEN Raise(s0, "KeyError")
        ELSE IF ~has_story_phase_data(s0.stories, s0.ob.story_data[1].story_id,
                                      "engagement")
        THEN Raise(s0, "AttributeError")
        ELSE IF ~is_done(s0.sub, "initial_engagement_prompt")
        THEN LET s1 == call_ai(
                         [s0 EXCEPT !.conv = SetKey(@, "last_observation", p)],
                         g, "ask_hypothesis")
             IN  [s1 EXCEPT !.conv.hypothesis_question = s1.ret]
        ELSE LET s1 == is_hypothesis_valid(s0, p, j)
             IN  IF s1.raised # NoException THEN s1
                 ELSE IF s1.ret
                 THEN handle_phase_experiment(
                        [s1 EXCEPT
                           !.phases = mark_done(@, "engagement_phase"),
                           !.sub = mark_undone(@, "initial_engagement_prompt")],
                        p, j, g)
                 ELSE call_ai(s1, g, "scaffold_hypothesis")

\* _handle_phase_engagement that, from the return of is_hypothesis_valid
\* on, clears initial_engagement_prompt when the hypothesis is rejected, so
\* that the question is asked afresh
after_is_hypothesis_valid_reask(s1, p, j, g) ==
    IF s1.raised # NoException THEN s1
    ELSE IF s1.ret
    THEN handle_phase_experiment(
           [s1 EXCEPT
              !.phases = mark_done(@, "engagement_phase"),
              !.sub = mark_undone(@, "initial_engagement_prompt")],
           p, j, g)
    ELSE call_ai([s1 EXCEPT !.sub = mark_undone(@, "initial_engagement_prompt")],
                 g, "scaffold_hypothesis")

\* _handle_phase_engagement from the return of is_hypothesis_valid on
\* (chat_logic_service.py:375)
after_is_hypothesis_valid(s1, p, j, g) ==
    IF s1.raised # NoException THEN s1
    ELSE IF s1.ret
    THEN handle_phase_experiment(
           [s1 EXCEPT
              !.phases = mark_done(@, "engagement_phase"),
              !.sub = mark_undone(@, "initial_engagement_prompt")],
           p, j, g)
    ELSE call_ai(s1, g, "scaffold_hypothesis")

\* ChatLogicService._handle_phase_engagement
handle_phase_engagement(s, p, j, g) ==
    LET s0 == Enter(s, "engagement", p)
    IN  IF ~HasStoryKey(s0.ob) THEN Raise(s0, "KeyError")
        ELSE IF s0.ob.story_data = EmptyDict THEN Raise(s0, "KeyError")
        ELSE IF ~has_story_phase_data(s0.stories, s0.ob.story_data[1].story_id,
                                      "engagement")
        THEN Raise(s0, "AttributeError")
        ELSE IF ~is_done(s0.sub, "initial_engagement_prompt")
        THEN LET s1 == call_ai(
                         [s0 EXCEPT
                            !.conv = SetKey(@, "last_observation", p),
                            !.sub = mark_done(@, "initial_engagement_prompt")],
                         g, "ask_hypothesis")
             IN  [s1 EXCEPT !.conv.hypothesis_question = s1.ret]
        ELSE after_is_hypothesis_valid(is_hypothesis_valid(s0, p, j), p, j, g)

\* _handle_phase_entry_point that, after narrating, marks the ask flag of
\* the engagement step instead of its own
handle_phase_entry_point_wrongflag(s, p, j, g) ==
    LET s0 == Enter(s, "entry_point", p)
    IN  IF ~HasStoryKey(s0.ob) THEN Raise(s0, "TypeError")
        ELSE IF s0.ob.story_data = EmptyDict THEN Raise(s0, "KeyError")
        ELSE IF ~has_story_phase_data(s0.stories, s0.ob.story_data[1].story_id,
                                      "entry")
        THEN Raise(s0, "AttributeError")
        ELSE IF ~is_done(s0.sub, "initial_entry_prompt")
        THEN LET s1 == call_ai(s0, g, "narrate_entry")
             IN  [s1 EXCEPT !.conv.initial_story_narration = s1.ret,
                            !.sub = mark_done(@, "initial_engagement_prompt")]
        ELSE LET s1 == is_observation_valid(s0, p, j)
             IN  IF s1.raised # NoException THEN s1
                 ELSE IF s1.ret
                 THEN handle_phase_engagement(
                        [s1 EXCEPT
                           !.phases = mark_done(@, "entry_point_phase"),
                           !.sub = mark_undone(@, "initial_entry_prompt")],
                        p, j, g)
                 ELSE call_ai(s1, g, "scaffold_observation")

\* _handle_phase_entry_point from the return of is_observation_valid on
\* (chat_logic_service.py:281)
after_is_observation_valid(s1, p, j, g) ==
    IF s1.raised # NoException THEN s1
    ELSE IF s1.ret
    THEN handle_phase_engagement(
           [s1 EXCEPT
              !.phases = mark_done(@, "entry_point_phase"),
              !.sub = mark_undone(@, "initial_entry_prompt")],
           p, j, g)
    ELSE call_ai(s1, g, "scaffold_observation")

\* ChatLogicService._handle_phase_entry_point
handle_phase_entry_point(s, p, j, g) ==
    LET s0 == Enter(s, "entry_point", p)
    IN  IF ~HasStoryKey(s0.ob) THEN Raise(s0, "TypeError")
        ELSE IF s0.ob.story_data = EmptyDict THEN Raise(s0, "KeyError")
        ELSE IF ~has_story_phase_data(s0.stories, s0.ob.story_data[1].story_id,
                                      "entry")
        THEN Raise(s0, "AttributeError")
        ELSE IF ~is_done(s0.sub, "initial_entry_prompt")
        THEN LET s1 == call_ai(s0, g, "narrate_entry")
             IN  [s1 EXCEPT !.conv.initial_story_narration = s1.ret,
                            !.sub = mark_done(@, "initial_entry_prompt")]
        ELSE after_is_observation_valid(is_observation_valid(s0, p, j), p, j, g)

----------------------------------------------------------------------------
(* chat_logic_service.py: the onboarding handlers *)

NameReprompt == Lit("Before we start, can you please tell me your name?")

TopicReprompt ==
    Lit("I didn't quite get that. What topic would you like to learn about today?")

StoryReprompt ==
    Lit("I didn't quite get that. What story would you like to learn about today?")

NameReply(name) ==
    Lit("Nice to meet you, ") \o name
      \o Lit("! What would you like to learn about today?\n\nHere are the topics you can choose from:\n")

TopicReply(topic) ==
    Lit("Great choice! We're going to learn about **") \o topic
      \o Lit("**.\n\nHere are the stories you can choose from:\n")

\* ChatLogicService._handle_get_name
handle_get_name(s, p) ==
    LET s0   == Enter(s, "get_name", p)
        name == extract_name(p)
    IN  IF Truthy(name)
        THEN Return([s0 EXCEPT !.ob.name = name,
                               !.phases = mark_done(@, "got_name")],
                    NameReply(name))
        ELSE Return(s0, NameReprompt)

\* _handle_pick_topic that marks the wrong step, story_selected, done
handle_pick_topic_skips(s, p) ==
    LET s0            == Enter(s, "pick_topic", p)
        topic         == p
        topic_stories == SelectSeq(s0.stories, LAMBDA story : story.topic = topic)
    IN  IF Truthy(topic)
        THEN Return([s0 EXCEPT
                       !.ob.chosen_topic = topic,
                       !.ob.topic_details = get_topic_details(s0.topics, topic),
                       !.ob.topic_stories = topic_stories,
                       !.ob.topic_stories_list =
                           [i \in DOMAIN topic_stories |-> topic_stories[i].title],
                       !.phases = mark_done(@, "story_selected")],
                    TopicReply(topic))
        ELSE Return(s0, TopicReprompt)

\* ChatLogicService._handle_pick_topic
handle_pick_topic(s, p) ==
    LET s0            == Enter(s, "pick_topic", p)
        topic         == p
        topic_stories == SelectSeq(s0.stories, LAMBDA story : story.topic = topic)
    IN  IF Truthy(topic)
        THEN Return([s0 EXCEPT
                       !.ob.chosen_topic = topic,
                       !.ob.topic_details = get_topic_details(s0.topics, topic),
                       !.ob.topic_stories = topic_stories,
                       !.ob.topic_stories_list =
                           [i \in DOMAIN topic_stories |-> topic_stories[i].title],
                       !.phases = mark_done(@, "picked_topic")],
                    TopicReply(topic))
        ELSE Return(s0, TopicReprompt)

\* _handle_select_story that falls back to the first story of the topic when
\* no title matches
handle_select_story_default(s, p, j, g) ==
    LET s0        == Enter(s, "select_story", p)
        story_map == s0.ob.topic_stories
        hits      == {i \in DOMAIN story_map : story_map[i].title = p}
    IN  IF hits # {}
        THEN LET i == CHOOSE m \in hits : \A n \in hits : m <= n
             IN  handle_phase_entry_point(
                    [s0 EXCEPT !.ob = SetKey(@, "story_data", <<story_map[i]>>),
                               !.phases = mark_done(@, "story_selected")],
                    p, j, g)
        ELSE Return(IF story_map # <<>>
                    THEN [s0 EXCEPT !.ob = SetKey(@, "story_data", <<story_map[1]>>)] ELSE s0,
                    StoryReprompt)

\* ChatLogicService._handle_select_story
handle_select_story(s, p, j, g) ==
    LET s0        == Enter(s, "select_story", p)
        story_map == s0.ob.topic_stories
        hits      == {i \in DOMAIN story_map : story_map[i].title = p}
    IN  IF hits # {}
        THEN LET i == CHOOSE m \in hits : \A n \in hits : m <= n
             IN  handle_phase_entry_point(
                    [s0 EXCEPT !.ob = SetKey(@, "story_data", <<story_map[i]>>),
                               !.phases = mark_done(@, "story_selected")],
                    p, j, g)
        ELSE Return(IF story_map # <<>>
                    THEN [s0 EXCEPT !.ob = SetKey(@, "story_data", EmptyDict)] ELSE s0,
                    StoryReprompt)

----------------------------------------------------------------------------
(* chat_logic_service.py: the wrap-up handlers *)

\* ChatLogicService._handle_phase_completed
handle_phase_completed(s, p, j, g) ==
    call_ai([Enter(s, "completed", p) EXCEPT
               !.phases = mark_done(@, "completed_phase")],
            g, "ask_whats_next")

\* ChatLogicService._handle_choice_phase: its first statement calls
\* self.evaluator.handle_completed_lesson_phase, which InputEvaluator does
\* not define
handle_choice_phase(s, p, j, g) ==
    Raise(Enter(s, "choice", p), "AttributeError")

----------------------------------------------------------------------------
(* chat_logic_service.py: the router *)

NoReply ==
    Lit("I'm not sure how to respond. Please try again or reset our chat.")

\* ChatLogicService.get_topic_list
get_topic_list(topics) == [i \in DOMAIN topics |-> topics[i].topic_name]

\* ChatLogicService.process_message, lines 112-140: dispatch on the current
\* phase
dispatch(s, current_phase, p, j, g) ==
    CASE current_phase = "got_name"           -> handle_get_name(s, p)
      [] current_phase = "picked_topic"       -> handle_pick_topic(s, p)
      [] current_phase = "story_selected"     -> handle_select_story(s, p, j, g)
      [] current_phase = "entry_point_phase"  -> handle_phase_entry_point(s, p, j, g)
      [] current_phase = "engagement_phase"   -> handle_phase_engagement(s, p, j, g)
      [] current_phase = "experimental_phase" -> handle_phase_experiment(s, p, j, g)
      [] current_phase = "conclusion_phase"   -> handle_conclusion_phase(s, p, j, g)
      [] current_phase = "resolution_phase"   -> handle_phase_resolution(s, p, j, g)
      [] current_phase = "completed_phase"    -> handle_phase_completed(s, p, j, g)
      [] OTHER                                -> handle_choice_phase(s, p, j, g)

\* ChatLogicService.process_message from the return of the handler on
\* (lines 141-156): the reply and the choices returned to the caller, or the
\* exception raised
handler_returns(s1, current_phase) ==
    LET bot_reply == IF s1.ret = None THEN NoReply ELSE s1.ret
        choices_to_send ==
            CASE current_phase = "got_name"     -> get_topic_list(s1.topics)
              [] current_phase = "picked_topic" -> s1.ob.topic_stories_list
              [] OTHER                          -> <<>>
    IN  IF s1.raised # NoException
        THEN [s1 EXCEPT !.ret = None, !.phase = current_phase]
        ELSE [s1 EXCEPT !.ret = bot_reply, !.choices = choices_to_send,
                        !.phase = current_phase]

\* the handler a call waiting in a validator goes on in when the verdict
\* arrives; s1 carries what the validator returned or raised
after_validator(kind, s1, p, j, g) ==
    CASE kind = "observation" -> after_is_observation_valid(s1, p, j, g)
      [] kind = "hypothesis"  -> after_is_hypothesis_valid(s1, p, j, g)
      [] kind = "experiment"  -> after_is_experiment_valid(s1, p, j, g)
      [] kind = "prediction"  -> after_is_prediction_valid(s1, p, j, g)
      [] kind = "conclusion"  -> after_is_conclusion_valid(s1, p, j, g)

\* ChatLogicService.process_message: the whole turn.  The result carries the
\* reply and the choices returned to the caller, or the exception raised.
process_message(s, p, j, g) ==
    LET current_phase == get_current_phase(s.phases, phase_steps)
    IN  handler_returns(dispatch(s, current_phase, p, j, g), current_phase)

----------------------------------------------------------------------------
(* What the environment can do in a turn *)

PromptMyNameIsJuan ==
    <<"m","y"," ","n","a","m","e"," ","i","s"," ","J","u","a","n">>

PromptMyNameIsAnna ==
    <<"M","Y"," ","N","A","M","E"," ","I","S"," ","\r","a","n","N","a","!">>

PromptJuan == <<"J","u","a","n">>

PromptMyNameIs == <<"m","y"," ","n","a","m","e"," ","i","s">>

PromptEmpty == <<>>

PromptPizza == <<"p","i","z","z","a">>

\* the user prompts of the model: name phrases in both letter cases (one
\* with a space and a carriage return before the name), a bare name, the
\* empty name phrase, the empty text, an off-catalog word, a catalog topic
\* and the two story titles of that topic
Prompts ==
    {PromptMyNameIsJuan, PromptMyNameIsAnna, PromptJuan, PromptMyNameIs,
     PromptEmpty, PromptPizza, TopicPlants, TitleSeed, TitleTree}

\* the texts a judgment call can come back with
JudgeTexts ==
    {AcceptToken,
     <<"N","O","T"," ","V","A","L","I","D">>,
     <<" ","v","a","l","i","d","\r","\n">>,
     <<"V","A","L","I","D",".">>,
     <<"Y","E","S">>,
     <<>>}

\* a judgment call raises, or returns a response whose text is a text or None
JudgeOutcomes ==
    {[raises |-> TRUE, text |-> None]}
      \cup {[raises |-> FALSE, text |-> t] : t \in JudgeTexts \cup {None}}

\* a failed judgment call, the accept token and a rejection
PlainVerdicts ==
    {[raises |-> TRUE, text |-> None],
     [raises |-> FALSE, text |-> AcceptToken],
     [raises |-> FALSE, text |-> <<"N","O","T"," ","V","A","L","I","D">>]}

GeneratedText == Lit("generated text")

\* send_message raises, or returns a response whose text is a text or None
GenOutcomes ==
    {[raises |-> TRUE, text |-> None],
     [raises |-> FALSE, text |-> GeneratedText],
     [raises |-> FALSE, text |-> None]}

----------------------------------------------------------------------------
(* The state machine *)

\* the largest number of direct checklist calls in a behaviour of SpecApi
MaxApiCalls == 2

NoOutcome == [raises |-> FALSE, text |-> None]

\* what is recorded of a step: the operation, the await a call went on from
\* in it ("none" when the call started in it), the inputs and the responses
\* the call has had, the phase it was routed on, the calls it has made, and
\* what it raised or returned
NoTurn ==
    [op |-> "init", after |-> "none", prompt |-> None, judge |-> NoOutcome,
     gen |-> NoOutcome, phase |-> NoPhase, events |-> <<>>,
     raised |-> NoException, reply |-> None, choices |-> <<>>]

HasEvent(t, call, what) ==
    \E i \in DOMAIN t.events : t.events[i].call = call /\ t.events[i].what = what

Generated(t) == \E i \in DOMAIN t.events : t.events[i].call = "generate"

\* the number of calls of one kind ("judge" or "generate") a turn made
CallCount(t, call) ==
    Cardinality({i \in DOMAIN t.events : t.events[i].call = call})

\* the largest number of process_message calls in flight on the session
MaxCallers == 2

Callers == 1..MaxCallers

\* what is kept of a call that waits: its input, the verdict it has had, the
\* phase it was routed on, the calls it has made (the last one is the call
\* it waits for) and, in SpecConc, the session as the call left it
Session(ph, su, ob, cv) == [phases |-> ph, sub |-> su, ob |-> ob, conv |-> cv]

NoCall ==
    [active |-> FALSE, prompt |-> None, judge |-> NoOutcome, phase |-> NoPhase,
     events |-> <<>>,
     left |-> Session(NewPhases, NewSubPhases, NewOnboardingData,
                      NewConversationData)]

\* the session ids of the model
SessionIds == {"A", "B"}

\* a session record: "checklist" (its two flag lists), "session_data" (its
\* two dicts) and "history"; present is FALSE for an id that is not a key
\* of ChatSessionManager.sessions
SessionRecord(ph, su, ob, cv, hist) ==
    [present |-> TRUE, phases |-> ph, sub |-> su, ob |-> ob, conv |-> cv,
     history |-> hist]

\* the record get_or_create_session stores for a new id
NewSession ==
    SessionRecord(NewPhases, NewSubPhases, NewOnboardingData,
                  NewConversationData, <<>>)

AbsentSession == [NewSession EXCEPT !.present = FALSE]

\* ChatSessionManager.__init__: self.sessions = {}
NoSessions == [id \in SessionIds |-> AbsentSession]

\* a direct call: the method, the session id (or the object) it was called
\* for, its other arguments, what it returned, and the call made before it
DirectCall(op, id, arg, result, prev) ==
    [op |-> op, id |-> id, arg |-> arg, result |-> result, prev |-> prev]

NoDirectCall == DirectCall("none", "none", <<>>, <<>>, <<"none", "none">>)

\* a session as get_or_create_session creates it, served by a service
\* constructed with the catalog
Init ==
    /\ phases = NewPhases
    /\ sub_phases = NewSubPhases
    /\ onboarding = NewOnboardingData
    /\ conv = NewConversationData
    /\ stories_data = CatalogStories
    /\ topics_data = CatalogTopics
    /\ turn = NoTurn
    /\ api_calls = 0
    /\ pending = [c \in Callers |-> NoCall]
    /\ sessions = NoSessions
    /\ last_call = NoDirectCall

\* the objects a turn is called with
TurnState ==
    [phases |-> phases, sub |-> sub_phases, ob |-> onboarding, conv |-> conv,
     stories |-> stories_data, topics |-> topics_data,
     events |-> <<>>, raised |-> NoException, ret |-> None,
     phase |-> NoPhase, choices |-> <<>>]

ValidVerdict == [raises |-> FALSE, text |-> AcceptToken]

GoodGen == [raises |-> FALSE, text |-> GeneratedText]

\* A process_message call is a coroutine.  It runs without interruption up
\* to an await that waits for the network (generate_content inside a
\* validator, send_message inside _call_ai) and yields to the event loop
\* there; the code takes no lock, so other calls of the session start and go
\* on while it waits.  A step of the model is what one call does between two
\* yields: from its start, or from the await it waited at, to its next await
\* or to its return.  No handler writes to the session before it awaits a
\* validator.  After send_message comes back the handler writes in three
\* places (chat_logic_service.py:274-276, 365, 524); after every other
\* send_message it only returns the reply.

\* the judgment that has not come back: the run stops at the await
Awaited == [raises |-> TRUE, text |-> None]

\* the send_message awaits after which the handler writes to the session
StoredReplies == {"narrate_entry", "ask_hypothesis", "propose_experiment"}

\* the key of important_conversation_data the handler stores the reply in
ReplyKey(directive) ==
    CASE directive = "narrate_entry"      -> "initial_story_narration"
      [] directive = "ask_hypothesis"     -> "hypothesis_question"
      [] directive = "propose_experiment" -> "experiment_data"

\* the await a run waits at, <<>> when it reached its return: r is a run
\* whose judgment calls after the first `given` ones got Awaited
AwaitOf(r, given) ==
    IF r.raised = "JudgeCallError" /\ CallCount(r, "judge") = given + 1
    THEN <<"judge", r.events[Len(r.events)].what>>
    ELSE IF r.raised = NoException /\ Generated(r)
    THEN LET sent == {i \in DOMAIN r.events : r.events[i].call = "generate"}
         IN  <<"generate",
               r.events[CHOOSE i \in sent : \A k \in sent : k <= i].what>>
    ELSE <<>>

\* a call that waits takes the first free slot
FreeSlot(c) ==
    /\ ~pending[c].active
    /\ \A d \in Callers : d < c => pending[d].active

\* the call a waiting call waits for
AwaitedCall(call) == call.events[Len(call.events)]

\* run r of a call with prompt p, started or gone on on session s, goes as
\* far as the await a, or to its return when a is <<>>.  At an await of
\* send_message the session is as the handler leaves it before the await:
\* the reply is not stored and, in the narration branch,
\* initial_entry_prompt is not marked.  after is the await the call went on
\* from, j the verdict the call has had, events the calls it has made.
RunsTo(s, r, a, after, p, j, events) ==
    /\ phases' = r.phases
    /\ onboarding' = r.ob
    /\ sub_phases' = IF a = <<"generate", "narrate_entry">>
                     THEN [r.sub EXCEPT !["initial_entry_prompt"] =
                                            s.sub["initial_entry_prompt"]]
                     ELSE r.sub
    /\ conv' = IF a # <<>> /\ a[1] = "generate" /\ a[2] \in StoredReplies
               THEN [r.conv EXCEPT ![ReplyKey(a[2])] = s.conv[ReplyKey(a[2])]]
               ELSE r.conv
    /\ turn' = IF a = <<>>
               THEN [op |-> IF after = "none" THEN "process_message" ELSE "resume",
                     after |-> after, prompt |-> p, judge |-> j,
                     gen |-> NoOutcome, phase |-> r.phase, events |-> events,
                     raised |-> r.raised, reply |-> r.ret,
                     choices |-> r.choices]
               ELSE [op |-> IF after = "none" THEN "suspend" ELSE "continue",
                     after |-> after, prompt |-> p, judge |-> j,
                     gen |-> NoOutcome, phase |-> r.phase, events |-> events,
                     raised |-> NoException, reply |-> None, choices |-> <<>>]
    /\ UNCHANGED <<stories_data, topics_data, api_calls, sessions, last_call>>

\* the record of a call that waits
Waiting(r, p, j, events) ==
    [NoCall EXCEPT !.active = TRUE, !.prompt = p, !.judge = j,
                   !.phase = r.phase, !.events = events]

\* a call that awaits nothing starts and returns in the same step: r is its
\* run
CallReturns(p, r) ==
    /\ RunsTo(TurnState, r, <<>>, "none", p, NoOutcome, r.events)
    /\ UNCHANGED pending

\* a call starts, runs to its first await, of a validator or of
\* send_message, and waits there: r is its run, a the await
CallWaits(c, p, r, a) ==
    /\ FreeSlot(c)
    /\ RunsTo(TurnState, r, a, "none", p, NoOutcome, r.events)
    /\ pending' = [pending EXCEPT ![c] = Waiting(r, p, NoOutcome, r.events)]

\* one call of process_message on the session's checklist and session_data
\* starts; the objects are mutated in place, so what a call did before it
\* raised stays done.  A call that reaches an await goes on in
\* VerdictArrives and ReplyArrives.
ProcessMessage(p) ==
    \E r \in {process_message(TurnState, p, Awaited, GoodGen)} :
        \E a \in {AwaitOf(r, 0)} :
            \/ a = <<>> /\ CallReturns(p, r)
            \/ a # <<>> /\ \E c \in Callers : CallWaits(c, p, r, a)

\* generate_content comes back, with outcome j, to a call that waits in a
\* validator: the handler the call is in goes on, on the session as it is
\* now, to the next await or, when it raises, to its return
VerdictArrives(c, j) ==
    /\ pending[c].active
    /\ AwaitedCall(pending[c]).call = "judge"
    /\ \E kind \in {AwaitedCall(pending[c]).what},
          jj \in {[raises |-> j.raises, text |-> j.text, then |-> Awaited]} :
        \E r \in {handler_returns(
                     after_validator(kind, validator_resumes(TurnState, jj, kind),
                                     pending[c].prompt, jj, GoodGen),
                     pending[c].phase)} :
          \E a \in {AwaitOf(r, 1)},
             events \in {SubSeq(pending[c].events, 1, Len(pending[c].events) - 1)
                            \o r.events} :
            /\ RunsTo(TurnState, r, a, "judge", pending[c].prompt, j, events)
            /\ pending' = [pending EXCEPT ![c] =
                             IF a = <<>> THEN NoCall
                             ELSE Waiting(r, pending[c].prompt, j, events)]

\* send_message comes back, with outcome g, to a call that waits in
\* _call_ai: the handler stores the reply where it does (and marks
\* initial_entry_prompt after a narration) and the call returns it
ReplyArrives(c, g) ==
    /\ pending[c].active
    /\ AwaitedCall(pending[c]).call = "generate"
    /\ \E directive \in {AwaitedCall(pending[c]).what},
          bot_reply \in {IF g.raises THEN Apology ELSE g.text} :
        /\ conv' = IF directive \in StoredReplies
                   THEN SetKey(conv, ReplyKey(directive), bot_reply)
                   ELSE conv
        /\ sub_phases' = IF directive = "narrate_entry"
                         THEN mark_done(sub_phases, "initial_entry_prompt")
                         ELSE sub_phases
        /\ pending' = [pending EXCEPT ![c] = NoCall]
        /\ turn' = [op |-> "resume", after |-> "generate",
                    prompt |-> pending[c].prompt, judge |-> pending[c].judge,
                    gen |-> g, phase |-> pending[c].phase,
                    events |-> pending[c].events, raised |-> NoException,
                    reply |-> IF bot_reply = None THEN NoReply ELSE bot_reply,
                    choices |-> <<>>]
        /\ UNCHANGED <<phases, onboarding, stories_data, topics_data,
                       api_calls, sessions, last_call>>

\* the major steps whose handlers judge an answer, once the question was
\* asked
AskedSteps == {"entry_point_phase", "engagement_phase", "experimental_phase"}

\* the sub-step flag that records that the question of a step was asked
AskFlag(step) ==
    CASE step = "entry_point_phase"  -> "initial_entry_prompt"
      [] step = "engagement_phase"   -> "initial_engagement_prompt"
      [] step = "experimental_phase" -> "initial_experiment_prompt"

\* a call starts with one of the prompts of the model
Turn == \E p \in Prompts : ProcessMessage(p)

Next ==
    \/ Turn
    \/ \E c \in Callers, g \in GenOutcomes : ReplyArrives(c, g)

\* a session driven by process_message calls only; from a fresh session no
\* call gets to the await of a validator (is_observation_valid raises
\* before it, input_evaluator.py:148)
Spec == Init /\ [][Next]_vars

\* the major steps that follow onboarding, and a name in no checklist
PedagogicalSteps ==
    {"entry_point_phase", "engagement_phase", "experimental_phase",
     "resolution_phase"}

ApiTurn(op, step) == [NoTurn EXCEPT !.op = op, !.phase = step]

\* checklist.phases.mark_done(step), called directly on the checklist of a
\* session that has selected its story
MarkPhaseDone(step) ==
    /\ api_calls < MaxApiCalls
    /\ phases["story_selected"]
    /\ phases' = mark_done(phases, step)
    /\ api_calls' = api_calls + 1
    /\ turn' = ApiTurn("phases.mark_done", step)
    /\ UNCHANGED <<sub_phases, onboarding, conv, stories_data, topics_data,
                   pending,
                   sessions, last_call>>

\* the user prompts of SpecApi: the empty text, a catalog topic (also a bare
\* name) and a story title
ApiPrompts == {PromptEmpty, TopicPlants, TitleSeed}

\* a call of SpecApi starts
TurnApi == \E p \in ApiPrompts : ProcessMessage(p)

\* every judgment outcome, and a send_message that comes back with a text
NextApi ==
    \/ TurnApi
    \/ \E c \in Callers, j \in JudgeOutcomes : VerdictArrives(c, j)
    \/ \E c \in Callers : ReplyArrives(c, GoodGen)
    \/ \E step \in PedagogicalSteps \cup {"conclusion_phase"} : MarkPhaseDone(step)

\* turns interleaved with direct calls of checklist.phases.mark_done, which
\* position a session at a later pedagogical step
SpecApi == Init /\ [][NextApi]_vars

\* send_message comes back with a text
ReplySucceeds == \E c \in Callers : ReplyArrives(c, GoodGen)

NextFair ==
    \/ Turn
    \/ ReplySucceeds

\* a session in which text generation always succeeds, calls keep being
\* made and every call that waits gets its reply
SpecFair == Init /\ [][NextFair]_vars /\ WF_vars(Turn) /\ WF_vars(ReplySucceeds)

\* checklist.phases.mark_done(current phase), called directly on the
\* checklist of a session that has selected its story: the session is moved
\* past the pedagogical step it is at
MarkCurrentPhaseDone ==
    \E step \in {get_current_phase(phases, phase_steps)} :
        /\ phases["story_selected"]
        /\ step \in PedagogicalSteps
        /\ phases' = mark_done(phases, step)
        /\ turn' = ApiTurn("phases.mark_done", step)
        /\ UNCHANGED <<sub_phases, onboarding, conv, stories_data, topics_data,
                       api_calls, pending,
                       sessions, last_call>>

\* the user prompts of SpecSkip: a catalog topic (also a bare name) and a
\* story title
SkipPrompts == {TopicPlants, TitleSeed}

\* a call of SpecSkip starts
TurnSkip == \E p \in SkipPrompts : ProcessMessage(p)

\* the plain verdicts, and every outcome of send_message
NextSkip ==
    \/ TurnSkip
    \/ MarkCurrentPhaseDone
    \/ \E c \in Callers, j \in PlainVerdicts : VerdictArrives(c, j)
    \/ \E c \in Callers, g \in GenOutcomes : ReplyArrives(c, g)

\* turns interleaved with direct calls that mark the current pedagogical
\* step done, so that a session can get to the end of the script
SpecSkip == Init /\ [][NextSkip]_vars

\* A process_message call is a coroutine: it runs without interruption up
\* to an await that waits for the network, and other calls on the same
\* session objects run while it waits.  In a session driven from its fresh
\* state the only such await is send_message in the narration branch of
\* _handle_phase_entry_point (chat_logic_service.py:273): the onboarding
\* handlers await nothing, and is_observation_valid raises before its own
\* await.  Before that await the call has stored the story and marked
\* story_selected (when it came through _handle_select_story) and created
\* the chat session; after it, it stores the narration and marks
\* initial_entry_prompt done (lines 274-276).

\* a call starts and runs to its end without waiting
CallRuns(c, p) ==
    \E r \in {process_message(TurnState, p, Awaited, GoodGen)} :
        /\ ~pending[c].active
        /\ AwaitOf(r, 0) = <<>>
        /\ phases' = r.phases
        /\ sub_phases' = r.sub
        /\ onboarding' = r.ob
        /\ conv' = r.conv
        /\ turn' = [op |-> "process_message", after |-> "none", prompt |-> p,
                    judge |-> NoOutcome, gen |-> NoOutcome, phase |-> r.phase,
                    events |-> r.events, raised |-> r.raised, reply |-> r.ret,
                    choices |-> r.choices]
        /\ UNCHANGED <<stories_data, topics_data, api_calls, pending,
                       sessions, last_call>>

\* a call starts and runs up to send_message, where it waits
CallSuspends(c, p) ==
    \E r \in {process_message(TurnState, p, Awaited, GoodGen)} :
        /\ ~pending[c].active
        /\ AwaitOf(r, 0) = <<"generate", "narrate_entry">>
        /\ phases' = r.phases
        /\ onboarding' = r.ob
        /\ pending' = [pending EXCEPT ![c] =
                         [active |-> TRUE, prompt |-> p, judge |-> NoOutcome,
                          phase |-> r.phase, events |-> r.events,
                          left |-> Session(r.phases, sub_phases, r.ob, conv)]]
        /\ turn' = [NoTurn EXCEPT !.op = "suspend", !.prompt = p,
                                  !.phase = r.phase]
        /\ UNCHANGED <<sub_phases, conv, stories_data, topics_data, api_calls,
                       sessions, last_call>>

\* send_message comes back with outcome g and the call runs to its end
CallResumes(c, g) ==
    \E bot_reply \in {IF g.raises THEN Apology ELSE g.text} :
        /\ pending[c].active
        /\ conv' = [conv EXCEPT !.initial_story_narration = bot_reply]
        /\ sub_phases' = mark_done(sub_phases, "initial_entry_prompt")
        /\ pending' = [pending EXCEPT ![c] = NoCall]
        /\ turn' = [op |-> "resume", after |-> "generate",
                    prompt |-> pending[c].prompt,
                    judge |-> NoOutcome, gen |-> g, phase |-> pending[c].phase,
                    events |-> pending[c].events, raised |-> NoException,
                    reply |-> IF bot_reply = None THEN NoReply ELSE bot_reply,
                    choices |-> <<>>]
        /\ UNCHANGED <<phases, onboarding, stories_data, topics_data, api_calls,
                       sessions, last_call>>

NextConc ==
    \/ \E c \in Callers, p \in Prompts : CallRuns(c, p)
    \/ \E c \in Callers, p \in Prompts : CallSuspends(c, p)
    \/ \E c \in Callers, g \in GenOutcomes : CallResumes(c, g)

\* process_message calls issued concurrently on one session
SpecConc == Init /\ [][NextConc]_vars

\* a catalog whose stories lack scripts: the first has none for engagement
\* and resolution, the second none for entry
CatalogWithGaps ==
    <<[story_id |-> "s1", title |-> TitleSeed, topic |-> TopicPlants,
       phases |-> {"entry"}],
      [story_id |-> "s2", title |-> TitleTree, topic |-> TopicPlants,
       phases |-> {"engagement", "resolution"}]>>

\* a fresh session served by a service constructed with that catalog
InitGaps ==
    /\ phases = NewPhases
    /\ sub_phases = NewSubPhases
    /\ onboarding = NewOnboardingData
    /\ conv = NewConversationData
    /\ stories_data = CatalogWithGaps
    /\ topics_data = CatalogTopics
    /\ turn = NoTurn
    /\ api_calls = 0
    /\ pending = [c \in Callers |-> NoCall]
    /\ sessions = NoSessions
    /\ last_call = NoDirectCall

\* the user prompts of SpecGaps: a catalog topic (also a bare name) and the
\* two story titles
GapPrompts == {TopicPlants, TitleSeed, TitleTree}

\* a call of SpecGaps starts
TurnGaps == \E p \in GapPrompts : ProcessMessage(p)

\* the plain verdicts, and a send_message that comes back with a text
NextGaps ==
    \/ TurnGaps
    \/ MarkCurrentPhaseDone
    \/ \E c \in Callers, j \in PlainVerdicts : VerdictArrives(c, j)
    \/ ReplySucceeds

\* turns, and direct calls that mark the current pedagogical step done, on
\* a catalog whose stories lack scripts
SpecGaps == InitGaps /\ [][NextGaps]_vars

----------------------------------------------------------------------------
(* session_manager.py: the session store.  A caller serves a turn with the  *)
(* objects of the record get_or_create_session returns, which               *)
(* process_message changes in place.                                        *)

\* get_or_create_session that stores a new record whatever the store holds
get_or_create_session_always_new(store, id) ==
    [store EXCEPT ![id] = NewSession]

\* ChatSessionManager.get_or_create_session: the store after the call
get_or_create_session(store, id) ==
    IF ~store[id].present THEN [store EXCEPT ![id] = NewSession] ELSE store

\* update_history that puts the message in front of the history
update_history_prepend(store, id, message) ==
    LET store1 == get_or_create_session(store, id)
    IN  [store1 EXCEPT ![id].history = <<message>> \o @]

\* update_history that appends the message to the history of every session
update_history_everywhere(store, id, message) ==
    LET store1 == get_or_create_session(store, id)
    IN  [k \in DOMAIN store1 |->
            IF store1[k].present
            THEN [store1[k] EXCEPT !.history = Append(@, message)]
            ELSE store1[k]]

\* ChatSessionManager.update_history
update_history(store, id, message) ==
    LET store1 == get_or_create_session(store, id)
    IN  [store1 EXCEPT ![id].history = Append(@, message)]

\* ChatSessionManager.save_session_data
save_session_data(store, id, record) == [store EXCEPT ![id] = record]

\* reset_session that stores a new record instead of deleting the key
reset_session_creates(store, id) == [store EXCEPT ![id] = NewSession]

\* ChatSessionManager.reset_session
reset_session(store, id) ==
    IF store[id].present THEN [store EXCEPT ![id] = AbsentSession] ELSE store

\* the longest history of the model
MaxHistory == 2

\* the messages a caller appends to a history
HistoryMessages ==
    {[role |-> "user", text |-> Lit("hello")],
     [role |-> "model", text |-> Lit("hi")]}

\* the user prompt of SpecStore: a catalog topic, which is also a bare name
StorePrompts == {TopicPlants}

\* the variables of the single session of the other specifications
single == <<phases, sub_phases, onboarding, conv, stories_data, topics_data,
            turn, api_calls, pending>>

Called(op, id, arg, result) ==
    DirectCall(op, id, arg, result, <<last_call.op, last_call.id>>)

GetOrCreateSession(id) ==
    /\ sessions' = get_or_create_session(sessions, id)
    /\ last_call' = Called("get_or_create_session", id, <<>>, <<sessions'[id]>>)
    /\ UNCHANGED single

UpdateHistory(id, message) ==
    /\ Len(sessions[id].history) < MaxHistory
    /\ sessions' = update_history(sessions, id, message)
    /\ last_call' = Called("update_history", id, <<message>>, <<>>)
    /\ UNCHANGED single

\* what a caller saves: the objects it got from the store for that id, or
\* objects it has just constructed
SaveArguments(id) ==
    {NewSession} \cup (IF sessions[id].present THEN {sessions[id]} ELSE {})

SaveSessionData(id, record) ==
    /\ sessions' = save_session_data(sessions, id, record)
    /\ last_call' = Called("save_session_data", id, <<record>>, <<>>)
    /\ UNCHANGED single

ResetSession(id) ==
    /\ sessions' = reset_session(sessions, id)
    /\ last_call' = Called("reset_session", id, <<>>, <<>>)
    /\ UNCHANGED single

\* process_message called with the checklist, the session_data and the
\* history of the record stored for id, by a call that awaits nothing
SessionTurn(id, p, g) ==
    \E r \in {process_message(
                [TurnState EXCEPT !.phases = sessions[id].phases,
                                  !.sub = sessions[id].sub,
                                  !.ob = sessions[id].ob,
                                  !.conv = sessions[id].conv],
                p, Awaited, g)} :
        /\ sessions[id].present
        /\ AwaitOf(r, 0) = <<>>
        /\ sessions' = [sessions EXCEPT ![id].phases = r.phases,
                                        ![id].sub = r.sub,
                                        ![id].ob = r.ob,
                                        ![id].conv = r.conv]
        /\ last_call' = Called("process_message", id, p, <<r.raised, r.ret>>)
        /\ UNCHANGED single

NextStore ==
    \/ \E id \in SessionIds : GetOrCreateSession(id)
    \/ \E id \in SessionIds, m \in HistoryMessages : UpdateHistory(id, m)
    \/ \E id \in SessionIds : \E record \in SaveArguments(id) :
          SaveSessionData(id, record)
    \/ \E id \in SessionIds : ResetSession(id)
    \/ \E id \in SessionIds, p \in StorePrompts : SessionTurn(id, p, GoodGen)

\* the session store used for two session ids
SpecStore == Init /\ [][NextStore]_vars

----------------------------------------------------------------------------
(* checklist_manager.py: the methods of the checklist called directly, in   *)
(* any order and with any step name.                                        *)

\* ChecklistState.reset
reset(state) == [step \in DOMAIN state |-> FALSE]

\* reset_all that leaves the sub-step list as it is
reset_all_phases_only(ph, su) == [phases |-> reset(ph), sub |-> su]

\* ChatChecklist.reset_all
reset_all(ph, su) == [phases |-> reset(ph), sub |-> reset(su)]

\* the two ChecklistState objects of a ChatChecklist
Lists == {"phases", "sub_phases"}

ListState(l) == IF l = "phases" THEN phases ELSE sub_phases

ListSteps(l) == IF l = "phases" THEN phase_steps ELSE sub_phase_steps

\* a step name the handlers pass that is in neither list
\* (chat_logic_service.py:480)
UnknownStep == "asked_for_prediction_prompt"

\* the step names a method of list l is called with
StepArguments(l) == Range(ListSteps(l)) \cup {UnknownStep}

NoPrevious == <<"none", "none">>

\* the variables the checklist methods leave alone
beside_checklist == <<onboarding, conv, stories_data, topics_data, turn,
                      api_calls, pending, sessions>>

SetList(l, state) ==
    IF l = "phases"
    THEN phases' = state /\ UNCHANGED sub_phases
    ELSE sub_phases' = state /\ UNCHANGED phases

GetCurrentPhase(l) ==
    /\ last_call' = DirectCall("get_current_phase", l, <<>>,
                        <<get_current_phase(ListState(l), ListSteps(l))>>,
                        NoPrevious)
    /\ UNCHANGED <<phases, sub_phases, beside_checklist>>

MarkDone(l, step) ==
    /\ SetList(l, mark_done(ListState(l), step))
    /\ last_call' = DirectCall("mark_done", l, <<step>>, <<>>, NoPrevious)
    /\ UNCHANGED beside_checklist

MarkUndone(l, step) ==
    /\ SetList(l, mark_undone(ListState(l), step))
    /\ last_call' = DirectCall("mark_undone", l, <<step>>, <<>>, NoPrevious)
    /\ UNCHANGED beside_checklist

IsDone(l, step) ==
    /\ last_call' = DirectCall("is_done", l, <<step>>,
                        <<is_done(ListState(l), step)>>, NoPrevious)
    /\ UNCHANGED <<phases, sub_phases, beside_checklist>>

\* ChecklistState.reset, called on one of the two lists
Reset(l) ==
    /\ SetList(l, reset(ListState(l)))
    /\ last_call' = DirectCall("reset", l, <<>>, <<>>, NoPrevious)
    /\ UNCHANGED beside_checklist

\* reset_all; the call record keeps the flags the checklist had
ResetAll ==
    \E r \in {reset_all(phases, sub_phases)} :
        /\ phases' = r.phases
        /\ sub_phases' = r.sub
        /\ last_call' = DirectCall("reset_all", "checklist",
                            <<phases, sub_phases>>, <<>>, NoPrevious)
        /\ UNCHANGED beside_checklist

NextChecklist ==
    \/ \E l \in Lists : GetCurrentPhase(l)
    \/ \E l \in Lists : \E step \in StepArguments(l) : MarkDone(l, step)
    \/ \E l \in Lists : \E step \in StepArguments(l) : MarkUndone(l, step)
    \/ \E l \in Lists : \E step \in StepArguments(l) : IsDone(l, step)
    \/ \E l \in Lists : Reset(l)
    \/ ResetAll

\* the checklist of a session, its methods called directly
SpecChecklist == Init /\ [][NextChecklist]_vars

----------------------------------------------------------------------------
(* input_evaluator.py: the local rule match, a pure function of the         *)
(* candidate answer and the rubric.                                         *)

\* InputEvaluator.is_answer_correct
is_answer_correct(user_input, expected_phrases) ==
    LET keywords == [i \in DOMAIN expected_phrases.keywords |->
                        Lower(expected_phrases.keywords[i])]
        examples == [i \in DOMAIN expected_phrases.examples |->
                        Lower(expected_phrases.examples[i])]
    IN  IF \E i \in DOMAIN keywords : Contains(user_input, keywords[i])
        THEN TRUE
        ELSE \E i \in DOMAIN examples :
                \/ user_input = examples[i]
                \/ Contains(user_input, examples[i])
                \/ Contains(examples[i], user_input)

\* a rubric; a key the dict lacks reads as the empty list
Rubric(keywords, examples) == [keywords |-> keywords, examples |-> examples]

\* the candidate answers: empty, blank, a keyword and an example in several
\* letter cases and with surrounding blanks, parts of an example, others
Candidates ==
    {<<>>,
     <<"s","u","n">>,
     <<"S","u","n">>,
     <<"S","U","N">>,
     <<" ","s","u","n"," ">>,
     <<"t","h","e"," ","s","u","n"," ","h","e","l","p","s">>,
     <<"T","h","e"," ","S","u","n"," ","H","e","l","p","s">>,
     <<"h","e"," ","s","u">>,
     <<"H","E">>,
     <<" "," ">>,
     <<"n","o">>,
     <<"t","h","e"," ","s","u","n"," ","h","e","l","p","s"," ","i","t">>}

\* rubrics with and without keywords and examples, in lower and mixed case
Rubrics ==
    {Rubric(<<>>, <<>>),
     Rubric(<<<<"s","u","n">>>>, <<>>),
     Rubric(<<<<"S","u","n">>>>, <<>>),
     Rubric(<<>>, <<<<"t","h","e"," ","s","u","n"," ","h","e","l","p","s">>>>),
     Rubric(<<>>, <<<<"T","h","e"," ","S","u","n"," ","H","e","l","p","s">>>>),
     Rubric(<<<<"s","u","n">>>>,
            <<<<"t","h","e"," ","s","u","n"," ","h","e","l","p","s">>>>),
     Rubric(<<<<"h","e","l","p","s">>, <<"s","u","n">>>>,
            <<<<"t","h","e"," ","s","u","n"," ","h","e","l","p","s">>>>)}

\* the function is about to be called with a candidate and a rubric
InitRubric ==
    /\ phases = NewPhases
    /\ sub_phases = NewSubPhases
    /\ onboarding = NewOnboardingData
    /\ conv = NewConversationData
    /\ stories_data = CatalogStories
    /\ topics_data = CatalogTopics
    /\ turn = NoTurn
    /\ api_calls = 0
    /\ pending = [c \in Callers |-> NoCall]
    /\ sessions = NoSessions
    /\ \E candidate \in Candidates, rubric \in Rubrics :
          last_call = DirectCall("input", "evaluator", <<candidate, rubric>>,
                                 <<>>, NoPrevious)

IsAnswerCorrect ==
    /\ last_call.op = "input"
    /\ last_call' = DirectCall("is_answer_correct", "evaluator", last_call.arg,
                         <<is_answer_correct(last_call.arg[1], last_call.arg[2])>>,
                         NoPrevious)
    /\ UNCHANGED <<phases, sub_phases, beside_checklist>>

NextRubric == IsAnswerCorrect

\* is_answer_correct applied to every candidate and rubric
SpecRubric == InitRubric /\ [][NextRubric]_vars

----------------------------------------------------------------------------
(* input_evaluator.py: extract_topic as a pure function of the text and of  *)
(* the topic list the evaluator was constructed with.  The topic names and  *)
(* the first four texts are those of tests/test_input_evaluator.py.         *)

TopicLiving ==
    <<"L","i","v","i","n","g"," ","v","s","."," ","N","o","n","-","L",
      "i","v","i","n","g"," ","T","h","i","n","g","s">>

TopicGrowthOfLiving ==
    <<"C","h","a","r","a","c","t","e","r","i","s","t","i","c","s"," ",
      "o","f"," ","L","i","v","i","n","g"," ","T","h","i","n","g","s",
      " ","-"," ","G","r","o","w","t","h">>

TopicParts ==
    <<"P","a","r","t","s"," ","o","f"," ","P","l","a","n","t","s"," ",
      "a","n","d"," ","A","n","i","m","a","l","s">>

TextLivingThings ==
    <<"I"," ","w","a","n","t"," ","t","o"," ","l","e","a","r","n"," ",
      "a","b","o","u","t"," ","l","i","v","i","n","g"," ","t","h","i",
      "n","g","s">>

TextAboutGrowth ==
    <<"l","e","t","s"," ","t","a","l","k"," ","a","b","o","u","t"," ",
      "g","r","o","w","t","h">>

TextPlantsAndAnimals ==
    <<"p","l","a","n","t","s"," ","a","n","d"," ","a","n","i","m","a",
      "l","s">>

TextLearnAbout ==
    <<"I"," ","w","a","n","t"," ","t","o"," ","l","e","a","r","n"," ",
      "a","b","o","u","t">>

\* the texts extract_topic is applied to: the four of the test, topic names
\* in several letter cases, alone, padded and inside a sentence, single
\* words of a name, the empty text, a text that names nothing
TopicTexts ==
    {TextLivingThings, TextAboutGrowth,
     TextPlantsAndAnimals, TextLearnAbout,
     <<"p","a","r","t","s"," ","o","f"," ","p","l","a","n","t","s"," ",
       "a","n","d"," ","a","n","i","m","a","l","s">>,
     <<"P","A","R","T","S"," ","O","F"," ","P","L","A","N","T","S"," ",
       "A","N","D"," ","A","N","I","M","A","L","S">>,
     <<"L","i","v","i","n","g"," ","v","s","."," ","N","o","n","-","L",
       "i","v","i","n","g"," ","T","h","i","n","g","s">>,
     <<" ","l","i","v","i","n","g"," ","v","s","."," ","n","o","n","-",
       "l","i","v","i","n","g"," ","t","h","i","n","g","s"," ">>,
     <<"t","e","l","l"," ","m","e"," ","a","b","o","u","t"," ","P","a",
       "r","t","s"," ","o","f"," ","P","l","a","n","t","s"," ","a","n",
       "d"," ","A","n","i","m","a","l","s">>,
     <<>>,
     <<"g","r","o","w","t","h">>,
     <<"a","n","i","m","a","l","s">>,
     <<"p","i","z","z","a">>}

\* the topic lists: the three topics in two orders, one topic, none
TopicCatalogs ==
    {<<[topic_name |-> TopicLiving], [topic_name |-> TopicGrowthOfLiving],
       [topic_name |-> TopicParts]>>,
     <<[topic_name |-> TopicParts], [topic_name |-> TopicGrowthOfLiving],
       [topic_name |-> TopicLiving]>>,
     <<[topic_name |-> TopicParts]>>,
     <<>>}

\* extract_topic is about to be called with a text, by an evaluator that
\* holds a topic list
InitTopic ==
    /\ phases = NewPhases
    /\ sub_phases = NewSubPhases
    /\ onboarding = NewOnboardingData
    /\ conv = NewConversationData
    /\ stories_data = CatalogStories
    /\ topics_data \in TopicCatalogs
    /\ turn = NoTurn
    /\ api_calls = 0
    /\ pending = [c \in Callers |-> NoCall]
    /\ sessions = NoSessions
    /\ \E text \in TopicTexts :
          last_call = DirectCall("input", "evaluator", <<text>>, <<>>,
                                 NoPrevious)

ExtractTopic ==
    /\ last_call.op = "input"
    /\ last_call' = DirectCall("extract_topic", "evaluator", last_call.arg,
                         <<extract_topic(topics_data, last_call.arg[1])>>,
                         NoPrevious)
    /\ UNCHANGED <<phases, sub_phases, beside_checklist>>

NextTopic == ExtractTopic

\* extract_topic applied to every text, for every topic list
SpecTopic == InitTopic /\ [][NextTopic]_vars

----------------------------------------------------------------------------
(* session_data_manager.py: SessionData.reset, called directly on the       *)
(* session data of a session, between any turns.  The checklist is not      *)
(* reset, so the turns after a reset are routed by the flags as they were.  *)

\* SessionData.reset: the two dicts it assigns
SessionData_reset ==
    [onboarding_data |->
        [name               |-> None,
         chosen_topic       |-> None,
         chosen_story       |-> None,
         topic_details      |-> EmptyDict,
         topic_stories      |-> EmptyDict,
         topic_stories_list |-> EmptyDict,
         chat_session       |-> None,
         end_goal           |-> None],
     important_conversation_data |->
        [initial_story_narration |-> None,
         hypothesis_question     |-> None,
         last_hypothesis         |-> None,
         last_prediction         |-> None,
         experiment_data         |-> None]]

SessionDataReset ==
    /\ onboarding' = SessionData_reset.onboarding_data
    /\ conv' = SessionData_reset.important_conversation_data
    /\ last_call' = DirectCall("SessionData.reset", "session_data", <<>>, <<>>,
                               NoPrevious)
    /\ turn' = ApiTurn("SessionData.reset", NoPhase)
    /\ UNCHANGED <<phases, sub_phases, stories_data, topics_data,
                   api_calls, pending, sessions>>

NextReset ==
    \/ Turn
    \/ SessionDataReset
    \/ \E c \in Callers, g \in GenOutcomes : ReplyArrives(c, g)

\* turns and resets of the session data, in any order
SpecReset == Init /\ [][NextReset]_vars

----------------------------------------------------------------------------
(* Properties.  A property of a call is stated over the steps that perform  *)
(* it: the unprimed variables are the session before a step, the primed     *)
(* ones the session after it, and turn' holds what the call was given and   *)
(* has done up to the end of the step.  A call that awaits nothing is one   *)
(* step (turn'.op is "process_message").  A call that awaits takes two      *)
(* steps or three: "suspend" is the step in which it starts and runs to its *)
(* first await, "continue" a step in which it goes on from an await to the  *)
(* next one, "resume" the step in which it goes on from an await to its     *)
(* return.                                                                   *)

CurrentPhase == get_current_phase(phases, phase_steps)

\* a call started and returned in the step: it awaited nothing
IsTurn(t) == t.op = "process_message"

\* a call started in the step: it ran to its return or to an await, where
\* it waits
StartsCall(t) == t.op \in {"process_message", "suspend"}

\* a call returned in the step: it ran from its start, or from the await
\* it waited at
EndsCall(t) == t.op \in {"process_message", "resume"}

\* a call ran in the step
CallStep(t) == t.op \in {"process_message", "suspend", "continue", "resume"}

\* the verdict of a judgment call arrived in the step, and the call went on
VerdictStep(t) == t.after = "judge"

\* the reply of send_message arrived in the step, and the call returned
ReplyStep(t) == t.after = "generate"

Judged(t) == \E i \in DOMAIN t.events : t.events[i].call = "judge"

PromptAnna == <<"A","n","n","a">>

\* C1: in every state reached from a fresh session by process_message turns,
\* the done flags of the major steps form a prefix of the script order:
\* every step before the current phase is done, every step from the current
\* phase on is undone.
C1_MajorStepsFormPrefix ==
    LET undone == {i \in DOMAIN phase_steps : ~phases[phase_steps[i]]}
        cur    == IF undone = {} THEN Len(phase_steps) + 1
                  ELSE CHOOSE i \in undone : \A k \in undone : i <= k
    IN  \A i \in DOMAIN phase_steps : phases[phase_steps[i]] <=> i < cur

\* the call that selected the story has returned: three steps done, the
\* fourth current
C1_Witness ==
    /\ EndsCall(turn)
    /\ turn.phase = "story_selected"
    /\ phases["story_selected"]
    /\ CurrentPhase = "entry_point_phase"

\* what the handler of an onboarding step has to have extracted from the
\* prompt for the step to become done: a name, a topic of the catalog, a
\* story of the chosen topic
C2_Extracted(step, p) ==
    CASE step = "got_name" ->
            Truthy(extract_name(p)) /\ onboarding'.name = extract_name(p)
      [] step = "picked_topic" ->
            /\ extract_topic(topics_data, p) # None
            /\ onboarding'.chosen_topic = extract_topic(topics_data, p)
      [] step = "story_selected" ->
            \E i \in DOMAIN onboarding.topic_stories :
                /\ onboarding.topic_stories[i].title = p
                /\ onboarding'.story_data = <<onboarding.topic_stories[i]>>

\* C2: an onboarding step becomes done only in a turn in which it was the
\* current phase and its handler extracted a value from that turn's input
\* (a name, a topic of the catalog, a story of the chosen topic); the steps
\* become done one at a time, in script order.  The step that marks
\* it is the one in which the call starts: the call returns in it or, after
\* the story step, waits for the narration.
C2_OnboardingAdvancesOnExtraction ==
    [][\A i \in 1..3 :
          LET step == phase_steps[i]
          IN  (~phases[step] /\ phases'[step]) =>
                /\ StartsCall(turn')
                /\ CurrentPhase = step
                /\ C2_Extracted(step, turn'.prompt)
                /\ \A k \in 1..3 :
                      k # i => phases'[phase_steps[k]] = phases[phase_steps[k]]
      ]_vars

\* C3: at the topic step an input that names no topic of the catalog leaves
\* picked_topic undone, writes no chosen topic and returns the fixed
\* re-prompt.
C3_UnknownTopicReprompts ==
    [][(/\ IsTurn(turn')
        /\ CurrentPhase = "picked_topic"
        /\ extract_topic(topics_data, turn'.prompt) = None)
        => /\ ~phases'["picked_topic"]
           /\ onboarding'.chosen_topic = onboarding.chosen_topic
           /\ turn'.reply = TopicReprompt
      ]_vars

\* the name extract_name has to produce for each prompt of the model
C4_ExpectedName(p) ==
    CASE p = PromptMyNameIsJuan -> PromptJuan
      [] p = PromptMyNameIsAnna -> PromptAnna
      [] p = PromptJuan         -> PromptJuan
      [] p = PromptPizza        -> <<"P","i","z","z","a">>
      [] p = TopicPlants        -> TopicPlants
      [] OTHER                  -> None

\* C4: at the name step a prompt that carries a name marks got_name done and
\* stores the name capitalised; "my name is" alone (and every prompt without
\* a name) stores nothing; no other major flag and no sub-step flag changes.
C4_NameStep ==
    [][(IsTurn(turn') /\ CurrentPhase = "got_name") =>
          LET n == C4_ExpectedName(turn'.prompt)
          IN  /\ IF n # None
                 THEN phases'["got_name"] /\ onboarding'.name = n
                 ELSE ~phases'["got_name"] /\ onboarding'.name = onboarding.name
              /\ \A step \in DOMAIN phases :
                    step # "got_name" => phases'[step] = phases[step]
              /\ sub_phases' = sub_phases
      ]_vars

\* "MY NAME IS \ranNa!" (a space and a carriage return before the name) was
\* given at the name step and Anna was stored
C4_Witness ==
    /\ IsTurn(turn)
    /\ turn.phase = "got_name"
    /\ turn.prompt = PromptMyNameIsAnna
    /\ phases["got_name"]
    /\ onboarding.name = PromptAnna

\* C5: when the name handler extracts no name, or the story handler finds no
\* story whose title equals the input, the turn returns the step's fixed
\* re-prompt and leaves every flag and every scratch value as it was.
C5_FailedExtractionChangesNothing ==
    [][(/\ IsTurn(turn')
        /\ \/ CurrentPhase = "got_name" /\ C4_ExpectedName(turn'.prompt) = None
           \/ /\ CurrentPhase = "story_selected"
              /\ \A i \in DOMAIN onboarding.topic_stories :
                    onboarding.topic_stories[i].title # turn'.prompt)
        => /\ turn'.reply = IF CurrentPhase = "got_name"
                            THEN NameReprompt ELSE StoryReprompt
           /\ turn'.raised = NoException
           /\ phases' = phases
           /\ sub_phases' = sub_phases
           /\ onboarding' = onboarding
           /\ conv' = conv
      ]_vars

\* a story title was asked for, stories were on offer, and none matched
C5_Witness ==
    /\ IsTurn(turn)
    /\ turn.phase = "story_selected"
    /\ onboarding.topic_stories # EmptyDict
    /\ turn.reply = StoryReprompt
    /\ ~phases["story_selected"]

\* C6: a call that finds a pedagogical step current with its ask flag undone
\* (any input, also the empty one) makes no judgment call and leaves the
\* major step undone: it waits for the question to be generated, and the
\* flag is done when it returns (the engagement and experiment handlers mark
\* it before they wait, the entry handler when the narration arrives); the
\* same holds for the entry step when the story handler hands over to it in
\* the call that selects the story.
C6_AskTurnDoesNotValidate ==
    [][/\ StartsCall(turn') =>
            /\ \A step \in AskedSteps :
                  (CurrentPhase = step /\ ~sub_phases[AskFlag(step)]) =>
                      /\ turn'.op = "suspend"
                      /\ AwaitedCall(turn').call = "generate"
                      /\ ~Judged(turn')
                      /\ ~phases'[step]
                      /\ step # "entry_point_phase" => sub_phases'[AskFlag(step)]
            /\ (CurrentPhase = "story_selected" /\ phases'["story_selected"]) =>
                  /\ turn'.op = "suspend"
                  /\ AwaitedCall(turn') = Event("generate", "narrate_entry", None)
                  /\ ~Judged(turn')
                  /\ ~phases'["entry_point_phase"]
       /\ (ReplyStep(turn') /\ ~Judged(turn')) =>
            /\ phases' = phases
            /\ \A step \in AskedSteps : sub_phases[AskFlag(step)] =>
                                            sub_phases'[AskFlag(step)]
            /\ AwaitedCall(turn').what = "narrate_entry" =>
                  sub_phases'["initial_entry_prompt"]
      ]_vars

\* the hypothesis question was asked in answer to an empty input, and the
\* call has returned it
C6_Witness ==
    /\ ReplyStep(turn)
    /\ turn.phase = "engagement_phase"
    /\ turn.prompt = PromptEmpty
    /\ AwaitedCall(turn) = Event("generate", "ask_hypothesis", None)
    /\ ~Judged(turn)
    /\ sub_phases["initial_engagement_prompt"]
    /\ ~phases["engagement_phase"]

\* the returned texts of the model that are the accept token once trimmed
\* and case-folded
AcceptedTexts == {AcceptToken, <<" ","v","a","l","i","d","\r","\n">>}

\* the judgment call returned a text, and the text is not the accept token
\* once trimmed and case-folded
RejectingVerdict(j) ==
    /\ ~j.raises
    /\ j.text \in JudgeTexts \ AcceptedTexts

\* C7: a call that is given a NOT VALID verdict while a judged step is
\* current with its question asked leaves the major step undone and the ask
\* flag done, in the step in which the verdict arrives and in the step in
\* which the scaffold reply arrives, so the next call is judged at the same
\* step again.
C7_RejectedAnswerStaysInStep ==
    [][(\/ VerdictStep(turn')
        \/ ReplyStep(turn') /\ Judged(turn')) =>
          \A step \in AskedSteps :
              (/\ CurrentPhase = step
               /\ sub_phases[AskFlag(step)]
               /\ RejectingVerdict(turn'.judge))
              => /\ ~phases'[step]
                 /\ sub_phases'[AskFlag(step)]
                 /\ get_current_phase(phases', phase_steps) = step
      ]_vars

\* a hypothesis was judged NOT VALID, the scaffold reply was generated and
\* the call has returned it
C7_Witness ==
    /\ ReplyStep(turn)
    /\ turn.phase = "engagement_phase"
    /\ HasEvent(turn, "judge", "hypothesis")
    /\ turn.judge.text = <<"N","O","T"," ","V","A","L","I","D">>
    /\ AwaitedCall(turn) = Event("generate", "scaffold_hypothesis", None)
    /\ turn.reply = GeneratedText
    /\ sub_phases["initial_engagement_prompt"]
    /\ ~phases["engagement_phase"]

\* C8: at entry_point_phase with initial_entry_prompt done, the call has
\* the observation judged (it waits for the verdict), and a VALID verdict
\* on it marks entry_point_phase done, sets initial_entry_prompt undone and
\* runs the engagement handler in the same call with the observation as its
\* input.
C8_ValidObservationAdvances ==
    [][/\ (/\ StartsCall(turn')
           /\ CurrentPhase = "entry_point_phase"
           /\ sub_phases["initial_entry_prompt"])
           => /\ turn'.op = "suspend"
              /\ HasEvent(turn', "judge", "observation")
       /\ (/\ VerdictStep(turn')
           /\ HasEvent(turn', "judge", "observation")
           /\ CurrentPhase = "entry_point_phase"
           /\ sub_phases["initial_entry_prompt"]
           /\ turn'.judge = ValidVerdict)
           => /\ phases'["entry_point_phase"]
              /\ ~sub_phases'["initial_entry_prompt"]
              /\ \E i \in DOMAIN turn'.events :
                    turn'.events[i] = Event("handler", "engagement", turn'.prompt)
      ]_vars

\* C9: at engagement_phase with initial_engagement_prompt done, a VALID
\* verdict on the hypothesis marks engagement_phase done, sets
\* initial_engagement_prompt undone and runs the experiment handler in the
\* same call with the hypothesis as its input.
C9_ValidHypothesisAdvances ==
    [][(/\ VerdictStep(turn')
        /\ HasEvent(turn', "judge", "hypothesis")
        /\ CurrentPhase = "engagement_phase"
        /\ sub_phases["initial_engagement_prompt"]
        /\ turn'.judge = ValidVerdict)
        => /\ phases'["engagement_phase"]
           /\ ~sub_phases'["initial_engagement_prompt"]
           /\ \E i \in DOMAIN turn'.events :
                 turn'.events[i] = Event("handler", "experiment", turn'.prompt)
      ]_vars

ExactAccept(j) == ~j.raises /\ j.text \in AcceptedTexts

\* the call took the branch a handler takes on a true verdict
TookAcceptBranch(t) ==
    \/ HasEvent(t, "generate", "ask_prediction")
    \/ HasEvent(t, "judge", "observation") /\ HasEvent(t, "handler", "engagement")
    \/ HasEvent(t, "judge", "hypothesis") /\ HasEvent(t, "handler", "experiment")
    \/ HasEvent(t, "judge", "prediction") /\ HasEvent(t, "handler", "conclusion")
    \/ HasEvent(t, "judge", "conclusion") /\ HasEvent(t, "handler", "resolution")

\* C10: validation is fail-closed.  In a call that makes a judgment call a
\* pedagogical major step becomes done, and the branch for an accepted
\* answer is taken, only if the returned text, trimmed and case-folded, is
\* exactly VALID; with any other returned text, no text, or a failed call,
\* every major step keeps its flag.  The verdict acts in the step in which
\* it arrives; the step in which the reply of such a call arrives marks no
\* major step.
C10_FailClosed ==
    [][/\ VerdictStep(turn') =>
            /\ (\E step \in PedagogicalSteps : ~phases[step] /\ phases'[step])
                  => ExactAccept(turn'.judge)
            /\ TookAcceptBranch(turn') => ExactAccept(turn'.judge)
            /\ ~ExactAccept(turn'.judge) => phases' = phases
       /\ (ReplyStep(turn') /\ Judged(turn')) =>
            /\ phases' = phases
            /\ TookAcceptBranch(turn') => ExactAccept(turn'.judge)
      ]_vars

\* an experiment idea was judged "VALID." (with a full stop) and was treated
\* as rejected: the teacher's experiment was proposed, the step stays undone
C10_Witness ==
    /\ ReplyStep(turn)
    /\ HasEvent(turn, "judge", "experiment")
    /\ turn.judge.text = <<"V","A","L","I","D",".">>
    /\ AwaitedCall(turn) = Event("generate", "propose_experiment", None)
    /\ conv.experiment_data = turn.reply
    /\ ~phases["experimental_phase"]

----------------------------------------------------------------------------
(* Failures of the two external capabilities *)

\* the judgment call whose outcome arrived in the step raised, or its
\* response carried no text
JudgeFailed(t) == VerdictStep(t) /\ (t.judge.raises \/ t.judge.text = None)

\* the send_message whose outcome arrived in the step raised, or its
\* response carried no text
GenFailed(t) == ReplyStep(t) /\ (t.gen.raises \/ t.gen.text = None)

\* the directives with which a handler answers a rejected answer
ScaffoldDirectives ==
    {"scaffold_observation", "scaffold_hypothesis", "propose_experiment",
     "scaffold_prediction", "scaffold_conclusion"}

\* C11: when the judgment call of a call raises or returns no text, the
\* handler treats the verdict as NOT VALID: the call does not fail, it
\* generates a scaffold reply, and every major flag and sub-step flag keeps
\* its value (the major step undone, the ask flag done).
C11_JudgeFailureIsNotValid ==
    [][JudgeFailed(turn') =>
          /\ turn'.raised = NoException
          /\ \E d \in ScaffoldDirectives : HasEvent(turn', "generate", d)
          /\ phases' = phases
          /\ sub_phases' = sub_phases
      ]_vars

\* C12: when send_message fails in a call, the call returns the fixed
\* apology and every major flag and every sub-step flag has the value it
\* had before: the step in which the failure arrives changes no flag.
C12_GenFailureChangesNoFlag ==
    [][GenFailed(turn') =>
          /\ turn'.reply = Apology
          /\ phases' = phases
          /\ sub_phases' = sub_phases
      ]_vars

\* the scratch slots a handler writes with the text send_message returned
ReplySlots == {"initial_story_narration", "hypothesis_question", "experiment_data"}

\* the scratch slots a handler writes with the learner's input before it
\* calls send_message
InputSlots == {"last_observation", "last_hypothesis"}

\* C13: a failed send_message leaves the scratch values as they were when
\* it was called: the slots written from its result keep the value they had
\* before the failure arrived, the slots written from the input hold that
\* value or the call's input, and no slot holds the apology.
C13_GenFailureKeepsScratch ==
    [][GenFailed(turn') =>
          /\ \A k \in ReplySlots : conv'[k] = conv[k]
          /\ \A k \in InputSlots \cap DOMAIN conv' :
                \/ conv'[k] = turn'.prompt
                \/ k \in DOMAIN conv /\ conv'[k] = conv[k]
          /\ \A k \in DOMAIN conv' : conv'[k] # Apology
      ]_vars

\* the call asked the learner for a prediction, the question was generated
\* and the call returned it
AskedForPrediction(t) ==
    /\ ReplyStep(t)
    /\ t.phase = "experimental_phase"
    /\ AwaitedCall(t).what \in {"ask_prediction", "propose_experiment"}
    /\ t.reply = GeneratedText

\* C14: in the experiment step, the call that follows a call in which the
\* prediction was asked for has its input judged as a prediction and not as
\* an experiment idea; a VALID prediction marks experimental_phase done,
\* leaves both experiment sub-step flags undone and runs the conclusion
\* handler in the same call.
C14_PredictionJudgedAfterAsk ==
    [][/\ (/\ AskedForPrediction(turn)
           /\ StartsCall(turn')
           /\ CurrentPhase = "experimental_phase")
           => /\ HasEvent(turn', "judge", "prediction")
              /\ ~HasEvent(turn', "judge", "experiment")
       /\ (/\ VerdictStep(turn')
           /\ HasEvent(turn', "judge", "prediction")
           /\ CurrentPhase = "experimental_phase"
           /\ ExactAccept(turn'.judge))
           => /\ phases'["experimental_phase"]
              /\ ~is_done(sub_phases', "initial_experiment_prompt")
              /\ ~is_done(sub_phases', "asked_for_prediction_prompt")
              /\ HasEvent(turn', "handler", "conclusion")
      ]_vars

AllDone == \A i \in DOMAIN phase_steps : phases[phase_steps[i]]

\* C15: when text generation always succeeds, calls keep being made and
\* every call gets what it waits for, a session that has selected a story
\* eventually has every major step done, experimental_phase and
\* resolution_phase included.
C15_SelectedStoryCompletes == phases["story_selected"] ~> AllDone

\* C16: when get_current_phase returns none of the step names the router
\* knows (the all-done state, where it returns None), process_message runs
\* the choice handler and returns a reply: the turn does not fail.
C16_UnknownPhaseGetsReply ==
    [][(IsTurn(turn') /\ CurrentPhase \notin Range(phase_steps)) =>
          /\ HasEvent(turn', "handler", "choice")
          /\ turn'.raised = NoException
          /\ turn'.reply # None
      ]_vars

CurrentSession == Session(phases, sub_phases, onboarding, conv)

\* C17: turns of one session are mutually exclusive.  A call starts only
\* when no other call of the session is in flight, and a call that waited
\* resumes on the session exactly as it left it, so that the calls act as
\* in some sequential order.
C17_TurnsMutuallyExclusive ==
    [][\A c \in Callers :
          /\ (~pending[c].active /\ pending'[c].active) =>
                \A d \in Callers \ {c} : ~pending[d].active
          /\ (pending[c].active /\ ~pending'[c].active) =>
                CurrentSession = pending[c].left
      ]_vars

\* C18: a call that raises leaves the session as it was: the major flags,
\* the sub-step flags, the onboarding data and the scratch values are those
\* the step that raised started with.
C18_FailedTurnRollsBack ==
    [][(EndsCall(turn') /\ turn'.raised # NoException) =>
          /\ phases' = phases
          /\ sub_phases' = sub_phases
          /\ onboarding' = onboarding
          /\ conv' = conv
      ]_vars

\* the name under which a story holds the script of a pedagogical step
ScriptOf(step) ==
    CASE step = "entry_point_phase" -> "entry"
      [] step = "engagement_phase"  -> "engagement"
      [] step = "resolution_phase"  -> "resolution"

ScriptedSteps == {"entry_point_phase", "engagement_phase", "resolution_phase"}

\* the selected story has no script for the step
LacksScript(ob, step) ==
    /\ ob.story_data # EmptyDict
    /\ ~has_story_phase_data(stories_data, ob.story_data[1].story_id,
                             ScriptOf(step))

\* C19: a call that finds a pedagogical step current for which the selected
\* story has no script does not fail and leaves the step done; the same
\* holds for the entry step when the call that selects the story hands over
\* to it.
C19_MissingScriptAdvances ==
    [][StartsCall(turn') =>
          /\ \A step \in ScriptedSteps :
                (CurrentPhase = step /\ LacksScript(onboarding, step)) =>
                    turn'.raised = NoException /\ phases'[step]
          /\ (/\ CurrentPhase = "story_selected"
              /\ phases'["story_selected"]
              /\ LacksScript(onboarding', "entry_point_phase")) =>
                    turn'.raised = NoException /\ phases'["entry_point_phase"]
      ]_vars

\* C20: when a call returns a sub-step flag is done only if it is the flag
\* of the major step that is then current, and a step of a call that marks
\* a major step done leaves that step's sub-step flag undone.
C20_SubFlagsScopedToCurrentStep ==
    [][EndsCall(turn') =>
          /\ \A f \in DOMAIN sub_phases' :
                sub_phases'[f] =>
                    \E step \in AskedSteps :
                        /\ AskFlag(step) = f
                        /\ get_current_phase(phases', phase_steps) = step
          /\ \A step \in AskedSteps :
                (~phases[step] /\ phases'[step]) => ~sub_phases'[AskFlag(step)]
      ]_vars

\* the call that selected the story marked story_selected done, handed
\* over to the entry handler and has returned the narration: the one flag
\* that is done is the flag of the step that is now current
C20_Witness ==
    /\ ReplyStep(turn)
    /\ turn.phase = "story_selected"
    /\ HasEvent(turn, "handler", "entry_point")
    /\ CurrentPhase = "entry_point_phase"
    /\ sub_phases["initial_entry_prompt"]
    /\ \A f \in DOMAIN sub_phases : f # "initial_entry_prompt" => ~sub_phases[f]

----------------------------------------------------------------------------
(* The session store *)

\* every flag undone, the scratch values of a new SessionData, no history
FreshRecord(rec) ==
    /\ rec.present
    /\ \A step \in DOMAIN rec.phases : ~rec.phases[step]
    /\ \A step \in DOMAIN rec.sub : ~rec.sub[step]
    /\ rec.ob = NewOnboardingData
    /\ rec.conv = NewConversationData
    /\ rec.history = <<>>

StoreCall(c, op) == c.op = op

\* C21: reset_session removes the session and nothing else; a second
\* reset_session of the same id, and a reset_session of an id the store
\* does not hold, leave the store unchanged; the get_or_create_session that
\* follows returns a fresh session.
C21_ResetIdempotent ==
    [][/\ StoreCall(last_call', "reset_session") =>
            /\ ~sessions'[last_call'.id].present
            /\ ~sessions[last_call'.id].present => sessions' = sessions
            /\ last_call'.prev = <<"reset_session", last_call'.id>> =>
                  sessions' = sessions
       /\ (/\ StoreCall(last_call', "get_or_create_session")
           /\ ~sessions[last_call'.id].present) =>
            /\ FreshRecord(sessions'[last_call'.id])
            /\ last_call'.result = <<sessions'[last_call'.id]>>
      ]_vars

\* reset_session was called twice in a row for an id, while the other
\* session is stored with a history
C21_Witness ==
    /\ StoreCall(last_call, "reset_session")
    /\ last_call.prev = <<"reset_session", last_call.id>>
    /\ \A id \in SessionIds :
          sessions[id].present <=> id # last_call.id
    /\ \E id \in SessionIds : sessions[id].history # <<>>

\* C22: get_or_create_session creates a fresh record for an id the store
\* does not hold, returns the stored record unchanged for an id it holds,
\* and touches no other record.
C22_GetOrCreate ==
    [][StoreCall(last_call', "get_or_create_session") =>
          LET id == last_call'.id
          IN  /\ IF sessions[id].present
                 THEN sessions'[id] = sessions[id]
                 ELSE FreshRecord(sessions'[id])
              /\ last_call'.result = <<sessions'[id]>>
              /\ \A k \in SessionIds \ {id} : sessions'[k] = sessions[k]
      ]_vars

\* get_or_create_session returned a record that has a name, a done flag
\* and a history
C22_Witness ==
    /\ StoreCall(last_call, "get_or_create_session")
    /\ last_call.result[1].phases["got_name"]
    /\ last_call.result[1].ob.name # None
    /\ Len(last_call.result[1].history) = MaxHistory

StoreCalls ==
    {"get_or_create_session", "update_history", "save_session_data",
     "reset_session", "process_message"}

\* C23: a turn, a history update, a save or a reset for one session id
\* leaves the record of every other session id as it was.
C23_SessionsIndependent ==
    [][last_call'.op \in StoreCalls =>
          \A k \in SessionIds \ {last_call'.id} : sessions'[k] = sessions[k]
      ]_vars

\* a history update was made for one session while the other session is
\* stored with a done flag and a history of its own
C23_Witness ==
    /\ StoreCall(last_call, "update_history")
    /\ \E k \in SessionIds \ {last_call.id} :
          /\ sessions[k].present
          /\ sessions[k].phases["got_name"]
          /\ sessions[k].history # <<>>
          /\ sessions[k].history # sessions[last_call.id].history

\* C24: update_history adds its message at the end of the history and keeps
\* the entries that were there, in their order; process_message leaves the
\* history as it is.
C24_HistoryAppendOnly ==
    [][/\ StoreCall(last_call', "update_history") =>
            LET id  == last_call'.id
                old == IF sessions[id].present THEN sessions[id].history
                       ELSE <<>>
            IN  /\ Len(sessions'[id].history) = Len(old) + 1
                /\ \A i \in DOMAIN old : sessions'[id].history[i] = old[i]
                /\ sessions'[id].history[Len(old) + 1] = last_call'.arg[1]
       /\ StoreCall(last_call', "process_message") =>
            sessions'[last_call'.id].history = sessions[last_call'.id].history
      ]_vars

\* a second, different message was appended to a history
C24_Witness ==
    /\ StoreCall(last_call, "update_history")
    /\ Len(sessions[last_call.id].history) = 2
    /\ sessions[last_call.id].history[1] # sessions[last_call.id].history[2]
    /\ sessions[last_call.id].history[2] = last_call.arg[1]

----------------------------------------------------------------------------
(* External calls of a turn *)

\* C25: a call makes at most one judgment call and at most two
\* text-generation calls, from its start to its return.
C25_CallsPerTurnBounded ==
    EndsCall(turn) =>
        /\ CallCount(turn, "judge") <= 1
        /\ CallCount(turn, "generate") <= 2

\* a call at a pedagogical step made a judgment call and then a
\* text-generation call, and has returned
C25_Witness ==
    /\ ReplyStep(turn)
    /\ turn.phase \in PedagogicalSteps
    /\ CallCount(turn, "judge") = 1
    /\ CallCount(turn, "generate") = 1

----------------------------------------------------------------------------
(* The checklist *)

\* C26: get_current_phase returns the first step of the list, in insertion
\* order, that is not done, or None when every step is done, and changes no
\* flag.
C26_CurrentPhaseIsFirstUndone ==
    [][last_call'.op = "get_current_phase" =>
          LET state  == ListState(last_call'.id)
              steps  == ListSteps(last_call'.id)
              result == last_call'.result[1]
          IN  /\ \/ /\ result = NoPhase
                    /\ \A i \in DOMAIN steps : state[steps[i]]
                 \/ \E i \in DOMAIN steps :
                       /\ result = steps[i]
                       /\ ~state[steps[i]]
                       /\ \A j \in 1..(i - 1) : state[steps[j]]
              /\ phases' = phases
              /\ sub_phases' = sub_phases
      ]_vars

\* get_current_phase returned engagement_phase for a major-step list in
\* which a later step is done and another later step is not
C26_Witness ==
    /\ last_call.op = "get_current_phase"
    /\ last_call.id = "phases"
    /\ last_call.result = <<"engagement_phase">>
    /\ phases["resolution_phase"]
    /\ ~phases["experimental_phase"]

\* C27: mark_done and mark_undone with a name the list does not have change
\* no flag and add no step; with a name the list has they set that step's
\* flag and no other; the other list is never changed.
C27_MarkChangesOneKnownFlag ==
    [][last_call'.op \in {"mark_done", "mark_undone"} =>
          LET l      == last_call'.id
              step   == last_call'.arg[1]
              before == IF l = "phases" THEN phases ELSE sub_phases
              after  == IF l = "phases" THEN phases' ELSE sub_phases'
          IN  /\ DOMAIN after = DOMAIN before
              /\ \A k \in DOMAIN before \ {step} : after[k] = before[k]
              /\ step \in DOMAIN before =>
                    after[step] = (last_call'.op = "mark_done")
              /\ l = "phases" => sub_phases' = sub_phases
              /\ l = "sub_phases" => phases' = phases
      ]_vars

\* mark_done was called with a name that is not in the list, on a list
\* that has a done step and a step not done
C27_Witness ==
    /\ last_call.op = "mark_done"
    /\ last_call.id = "sub_phases"
    /\ last_call.arg = <<UnknownStep>>
    /\ sub_phases["initial_experiment_prompt"]
    /\ ~sub_phases["initial_entry_prompt"]
    /\ DOMAIN sub_phases = Range(sub_phase_steps)

\* C28: reset_all leaves every flag of both lists undone, keeps the step
\* names and their order, and a second reset_all changes nothing.
C28_ResetAll ==
    [][last_call'.op = "reset_all" =>
          /\ \A step \in DOMAIN phases' : ~phases'[step]
          /\ \A step \in DOMAIN sub_phases' : ~sub_phases'[step]
          /\ DOMAIN phases' = Range(phase_steps)
          /\ DOMAIN sub_phases' = Range(sub_phase_steps)
          /\ get_current_phase(phases', phase_steps) = phase_steps[1]
          /\ get_current_phase(sub_phases', sub_phase_steps) = sub_phase_steps[1]
          /\ reset_all(phases', sub_phases').phases = phases'
          /\ reset_all(phases', sub_phases').sub = sub_phases'
      ]_vars

\* reset_all was called on a checklist whose major steps were all done and
\* which had a sub-step done
C28_Witness ==
    /\ last_call.op = "reset_all"
    /\ \A step \in Range(phase_steps) : last_call.arg[1][step]
    /\ last_call.arg[2]["initial_engagement_prompt"]
    /\ \A step \in Range(phase_steps) : ~phases[step]
    /\ \A step \in Range(sub_phase_steps) : ~sub_phases[step]

----------------------------------------------------------------------------
(* The local rule match *)

\* the match the rule describes, on a candidate already case-folded and
\* trimmed
RuleMatch(c, rubric) ==
    \/ \E i \in DOMAIN rubric.keywords : Contains(c, Lower(rubric.keywords[i]))
    \/ \E i \in DOMAIN rubric.examples :
          \/ c = Lower(rubric.examples[i])
          \/ Contains(c, Lower(rubric.examples[i]))
          \/ Contains(Lower(rubric.examples[i]), c)

\* C29: is_answer_correct is true exactly when the candidate, case-folded
\* and trimmed, contains a keyword of the rubric or equals, contains or is
\* contained in an example of the rubric.
C29_MatchFoldsCaseAndTrims ==
    last_call.op = "is_answer_correct" =>
        last_call.result[1] =
            RuleMatch(Lower(Strip(last_call.arg[1])), last_call.arg[2])

\* C30: is_answer_correct is false for the empty candidate, whatever the
\* rubric.
C30_EmptyCandidateRejected ==
    (last_call.op = "is_answer_correct" /\ last_call.arg[1] = <<>>) =>
        ~last_call.result[1]

----------------------------------------------------------------------------
(* Topic extraction *)

HasTopic(topics, name) == \E i \in DOMAIN topics : topics[i].topic_name = name

\* C31: extract_topic returns the official name of the topic a text refers
\* to by a distinguishing part of its name: "I want to learn about living
\* things" gives "Living vs. Non-Living Things", "lets talk about growth"
\* gives the growth topic, "plants and animals" gives "Parts of Plants and
\* Animals", when the evaluator holds the three topics; "I want to learn
\* about" gives None.
C31_TopicByDistinguishingPart ==
    (last_call.op = "extract_topic" /\ Len(topics_data) = 3) =>
        LET text   == last_call.arg[1]
            result == last_call.result[1]
        IN  /\ text = TextLivingThings => result = TopicLiving
            /\ text = TextAboutGrowth => result = TopicGrowthOfLiving
            /\ text = TextPlantsAndAnimals => result = TopicParts
            /\ text = TextLearnAbout => result = None

----------------------------------------------------------------------------
(* The end of the script *)

\* C32: resolution_phase is marked done only in a call in which
\* is_conclusion_valid was called and answered VALID for that call's input.
C32_ResolutionAfterValidConclusion ==
    [][(/\ CallStep(turn')
        /\ ~phases["resolution_phase"]
        /\ phases'["resolution_phase"]) =>
          /\ VerdictStep(turn')
          /\ HasEvent(turn', "judge", "conclusion")
          /\ ExactAccept(turn'.judge)
      ]_vars

\* C33: the first input after the call that told the resolution is handled
\* by the completed-phase handler, which returns a reply.
C33_CompletedHandlerRunsFirst ==
    [][(/\ StartsCall(turn')
        /\ ReplyStep(turn)
        /\ AwaitedCall(turn).what = "tell_resolution"
        /\ phases["resolution_phase"]) =>
          /\ HasEvent(turn', "handler", "completed")
          /\ turn'.raised = NoException
      ]_vars

\* C34: a turn handled by the choice handler returns a reply and either
\* goes back to topic selection with the topic list as choices, or makes
\* story selection current with the story list of the topic as choices, or
\* leaves the state as it is.
C34_ChoiceOutcomes ==
    [][(IsTurn(turn') /\ HasEvent(turn', "handler", "choice")) =>
          /\ turn'.raised = NoException
          /\ turn'.reply # None
          /\ \/ /\ get_current_phase(phases', phase_steps) = "picked_topic"
                /\ turn'.choices = get_topic_list(topics_data)
             \/ /\ get_current_phase(phases', phase_steps) = "story_selected"
                /\ turn'.choices = onboarding.topic_stories_list
             \/ /\ phases' = phases
                /\ sub_phases' = sub_phases
                /\ onboarding' = onboarding
                /\ conv' = conv
      ]_vars

\* C37: no step of a call sets a major step that is done back to undone.
C37_MajorStepsMonotonic ==
    [][CallStep(turn') =>
          \A step \in Range(phase_steps) : phases[step] => phases'[step]
      ]_vars

\* the call that told the resolution has returned, with every major step
\* done after it
C37_Witness ==
    /\ ReplyStep(turn)
    /\ turn.phase = "resolution_phase"
    /\ AwaitedCall(turn) = Event("generate", "tell_resolution", None)
    /\ \A step \in Range(phase_steps) : phases[step]

\* C40: when a call that judged the experiment idea returns,
\* experiment_data holds the learner's idea when the verdict was VALID and
\* the generated text that proposes the teacher's experiment otherwise; it
\* is not None.
C40_ExperimentDataSet ==
    [][(/\ EndsCall(turn')
        /\ HasEvent(turn', "judge", "experiment")
        /\ turn'.raised = NoException) =>
          /\ conv'.experiment_data # None
          /\ conv'.experiment_data =
                IF ExactAccept(turn'.judge) THEN turn'.prompt ELSE turn'.reply
      ]_vars

----------------------------------------------------------------------------
(* Reset of the session data *)

\* what a call with prompt p does, up to its first await or to its return,
\* on the session's checklist with the data of a newly constructed
\* SessionData
OnNewSessionData(p) ==
    process_message([TurnState EXCEPT !.ob = NewOnboardingData,
                                      !.conv = NewConversationData],
                    p, Awaited, GoodGen)

\* C35: after SessionData.reset, onboarding_data and
\* important_conversation_data have the keys and the values of a newly
\* constructed SessionData, and the call that follows the reset returns or
\* raises, and marks, what it does on a newly constructed SessionData.
C35_ResetRestoresInitialData ==
    [][/\ turn'.op = "SessionData.reset" =>
              /\ DOMAIN onboarding' = DOMAIN NewOnboardingData
              /\ onboarding' = NewOnboardingData
              /\ conv' = NewConversationData
       /\ (turn.op = "SessionData.reset" /\ StartsCall(turn')) =>
              \E r \in {OnNewSessionData(turn'.prompt)} :
                  /\ IsTurn(turn') <=> AwaitOf(r, 0) = <<>>
                  /\ phases' = r.phases
                  /\ IsTurn(turn') =>
                        /\ turn'.raised = r.raised
                        /\ turn'.reply = r.ret
                        /\ sub_phases' = r.sub
      ]_vars


\* the session a turn leaves behind, as the next turn finds it
Continue(r) ==
    [r EXCEPT !.events = <<>>, !.raised = NoException, !.ret = None,
              !.phase = NoPhase, !.choices = <<>>]

\* the turns onboarding needs at most: a name, a topic and a story title
MaxOnboardingTurns == 3

\* some sequence of at most n process_message calls on the session s ends
\* with story_selected done
RECURSIVE CanSelectStory(_, _)
CanSelectStory(s, n) ==
    \/ s.phases["story_selected"]
    \/ /\ n > 0
       /\ \E p \in Prompts, g \in GenOutcomes :
              CanSelectStory(Continue(process_message(s, p, NoOutcome, g)),
                             n - 1)

\* C36: onboarding has no dead end: from every reachable state in which
\* story_selected is undone some finite sequence of inputs gets it done
C36_OnboardingHasNoDeadEnd ==
    ~phases["story_selected"] => CanSelectStory(TurnState, MaxOnboardingTurns)


\* the calls that took the narration branch of _handle_phase_entry_point and
\* have not yet marked initial_entry_prompt
Narrating ==
    {c \in Callers : /\ pending[c].active
                     /\ HasEvent(pending[c], "generate", "narrate_entry")}

\* C39: the narration branch of a visit to entry_point_phase is taken once:
\* while one call that found initial_entry_prompt undone is narrating, no
\* other call of the session is in that branch
C39_NarrationBranchTakenOnce ==
    Cardinality(Narrating) <= 1


\* C38: in every reachable state, the states between the awaits of
\* overlapping turns included, initial_engagement_prompt done means the
\* hypothesis_question slot holds the question that was asked
C38_QuestionStoredWhenFlagged ==
    sub_phases["initial_engagement_prompt"] => conv.hypothesis_question # None

====
